---- MODULE Spec2Model ----
(***************************************************************************)
(* A model of the retry engine of the rest-client library:                 *)
(*   rest_client/retry.py       RetryConfig, RetryHandler                  *)
(*   rest_client/exceptions.py  the error classes and raise_for_status     *)
(*   rest_client/client.py      Client.request / Client._send_request      *)
(*                                                                         *)
(* Python values are modelled as follows.                                  *)
(*   Optional[T]   a sequence of length <= 1: << >> is None, <<v>> is v    *)
(*   str           a sequence of one-character strings (where it is parsed)*)
(*   float seconds an integer number of eighths of a second                *)
(*   random()      one of the values of RandomValues, in eighths           *)
(***************************************************************************)
EXTENDS Integers, Sequences, FiniteSets, TLC

\* ------------------------------------------------------------------------
\* Bounds of the model
\* ------------------------------------------------------------------------

\* The largest max_retries a RetryConfig of the model is built with.
MaxRetriesBound == 2

\* The largest attempt index should_retry and get_backoff_time are asked about.
MaxAttemptIndex == 4

\* ------------------------------------------------------------------------
\* Python values
\* ------------------------------------------------------------------------

None == << >>

Some(v) == << v >>

IsNone(o) == o = << >>

Get(o) == o[1]

\* n seconds as a duration of the model (eighths of a second).
Seconds(n) == n * 8

Min(a, b) == IF a <= b THEN a ELSE b

Pow2(n) == 2 ^ n

\* ------------------------------------------------------------------------
\* int(str): an optional sign followed by one or more decimal digits
\* ------------------------------------------------------------------------

Digits == <<"0", "1", "2", "3", "4", "5", "6", "7", "8", "9">>

IsDigit(ch) == \E i \in 1..10 : Digits[i] = ch

DigitVal(ch) == (CHOOSE i \in 1..10 : Digits[i] = ch) - 1

RECURSIVE DigitsValue(_)
DigitsValue(s) ==
    IF s = << >> THEN 0
    ELSE 10 * DigitsValue(SubSeq(s, 1, Len(s) - 1)) + DigitVal(s[Len(s)])

AllDigits(s) == Len(s) >= 1 /\ \A i \in 1..Len(s) : IsDigit(s[i])

\* TRUE iff int(s) returns; otherwise int(s) raises ValueError.
IntParses(s) ==
    \/ AllDigits(s)
    \/ Len(s) >= 2 /\ s[1] \in {"-", "+"} /\ AllDigits(Tail(s))

IntValue(s) ==
    IF s[1] = "-" THEN 0 - DigitsValue(Tail(s))
    ELSE IF s[1] = "+" THEN DigitsValue(Tail(s))
    ELSE DigitsValue(s)

\* ------------------------------------------------------------------------
\* Exceptions
\* ------------------------------------------------------------------------

\* The direct base class of every exception class of the model: the classes
\* of Python and httpx, those of rest_client/exceptions.py (its ConnectionError
\* and TimeoutError under the names client.py imports them by) and those of
\* gemini/exceptions.py (prefixed with Gemini).
BaseOf ==
    [ BaseException          |-> "object",
      Exception              |-> "BaseException",
      CancelledError         |-> "BaseException",
      ValueError             |-> "Exception",
      RuntimeError           |-> "Exception",
      TransportError         |-> "Exception",
      NetworkError           |-> "TransportError",
      TimeoutException       |-> "TransportError",
      ConnectError           |-> "NetworkError",
      ReadTimeout            |-> "TimeoutException",
      HTTPStatusError        |-> "Exception",
      ClientError            |-> "Exception",
      HTTPError              |-> "ClientError",
      ClientConnectionError  |-> "ClientError",
      ClientTimeoutError     |-> "ClientError",
      ValidationError        |-> "ClientError",
      AuthenticationError    |-> "HTTPError",
      RateLimitError         |-> "HTTPError",
      GeminiClientError         |-> "Exception",
      GeminiConnectionError     |-> "GeminiClientError",
      GeminiTimeoutError        |-> "GeminiClientError",
      GeminiHTTPError           |-> "GeminiClientError",
      GeminiAuthenticationError |-> "GeminiHTTPError",
      GeminiRateLimitError      |-> "GeminiHTTPError",
      GeminiServerError         |-> "GeminiHTTPError",
      GeminiValidationError     |-> "GeminiClientError" ]

RECURSIVE IsSubclass(_, _)
IsSubclass(cls, base) ==
    IF cls = base THEN TRUE
    ELSE IF cls = "object" THEN FALSE
    ELSE IsSubclass(BaseOf[cls], base)

\* An exception object: its class, its message, the exception it was raised
\* from (__cause__, a class name or "None"), and, for the HTTP errors, the
\* response, the status code and the retry_after they carry.
NewException(type, message, cause, response, status_code, retry_after) ==
    [ type        |-> type,
      message     |-> message,
      cause       |-> cause,
      response    |-> response,
      status_code |-> status_code,
      retry_after |-> retry_after ]

\* An exception that carries no response.
PlainException(type, message, cause) ==
    NewException(type, message, cause, None, None, None)

IsInstance(e, cls) == IsSubclass(e.type, cls)

\* ------------------------------------------------------------------------
\* Responses
\* ------------------------------------------------------------------------

\* The status codes the transport answers with in the model.
Statuses == {200, 301, 401, 404, 429, 500, 503}

\* Values of a Retry-After header: "" , "2", "99", "-1" and an HTTP-date.
RetryAfterValues ==
    { << >>, <<"2">>, <<"9", "9">>, <<"-", "1">>, <<"W", "e", "d">> }

\* Parsed bodies: a JSON object with its "message" and "error" members
\* (None when the member is missing), or a JSON value that is no object.
JsonValues ==
    { [is_dict |-> TRUE,  message |-> Some("m"), error |-> Some("e")],
      [is_dict |-> TRUE,  message |-> None,      error |-> Some("e")],
      [is_dict |-> TRUE,  message |-> None,      error |-> None],
      [is_dict |-> FALSE, message |-> None,      error |-> None] }

\* A response: status code, the Retry-After entry of its header map (None when
\* the header is absent) and the value json() returns (None when json() raises).
NewResponse(status, retry_after_header, json) ==
    [ status_code |-> status,
      headers     |-> [Retry_After |-> retry_after_header],
      json        |-> json ]

\* The responses the transport can produce. The Retry-After header varies on
\* 429 and 503 responses, the body on 404 responses.
Responses ==
    { NewResponse(s, None, None) : s \in Statuses }
    \cup { NewResponse(s, Some(h), None) : s \in {429, 503}, h \in RetryAfterValues }
    \cup { NewResponse(404, None, Some(j)) : j \in JsonValues }

\* response.headers.get(name)
HeadersGet(response, name) ==
    IF name = "Retry-After" THEN response.headers.Retry_After ELSE None

\* Truthiness of an Optional[str]: None and "" are falsy.
Truthy(o) == ~IsNone(o) /\ Get(o) # << >>

\* ------------------------------------------------------------------------
\* RetryConfig
\* ------------------------------------------------------------------------

DefaultRetryStatusCodes == {408, 429, 500, 502, 503, 504}

\* RetryConfig.__init__: retry_status_codes is an Optional[Set[int]].
RetryConfig(max_retries, retry_status_codes, backoff_factor, max_backoff, jitter) ==
    [ max_retries        |-> max_retries,
      retry_status_codes |->
          IF IsNone(retry_status_codes) \/ Get(retry_status_codes) = {}
          THEN DefaultRetryStatusCodes
          ELSE Get(retry_status_codes),
      backoff_factor     |-> backoff_factor,
      max_backoff        |-> max_backoff,
      jitter             |-> jitter ]

\* should_retry with every exception taken as retryable.
should_retry_AnyException(cfg, attempt, response, exception) ==
    IF attempt >= cfg.max_retries THEN FALSE
    ELSE IF ~IsNone(exception) THEN TRUE
    ELSE IF ~IsNone(response)
         THEN Get(response).status_code \in cfg.retry_status_codes
    ELSE FALSE

\* should_retry with the budget test off by one: attempt > max_retries.
should_retry_BudgetOffByOne(cfg, attempt, response, exception) ==
    IF attempt > cfg.max_retries THEN FALSE
    ELSE IF ~IsNone(exception)
         THEN IsInstance(Get(exception), "ConnectError")
                 \/ IsInstance(Get(exception), "ReadTimeout")
    ELSE IF ~IsNone(response)
         THEN Get(response).status_code \in cfg.retry_status_codes
    ELSE FALSE

\* should_retry looking at the response before the exception.
should_retry_ResponseFirst(cfg, attempt, response, exception) ==
    IF attempt >= cfg.max_retries THEN FALSE
    ELSE IF ~IsNone(response)
         THEN Get(response).status_code \in cfg.retry_status_codes
    ELSE IF ~IsNone(exception)
         THEN IsInstance(Get(exception), "ConnectError")
                 \/ IsInstance(Get(exception), "ReadTimeout")
    ELSE FALSE

\* RetryConfig.should_retry(attempt, response=None, exception=None)
should_retry(cfg, attempt, response, exception) ==
    IF attempt >= cfg.max_retries THEN FALSE
    ELSE IF ~IsNone(exception)
         THEN IF IsInstance(Get(exception), "ConnectError")
                 \/ IsInstance(Get(exception), "ReadTimeout")
              THEN TRUE
              ELSE FALSE
    ELSE IF ~IsNone(response)
         THEN Get(response).status_code \in cfg.retry_status_codes
    ELSE FALSE

\* The values random.random() takes in the model, in eighths: 0, 0.25, 0.5, 0.75.
RandomValues == {0, 2, 4, 6}

\* random.random() is called only when jitter is on.
RandomDraws(cfg) == IF cfg.jitter THEN RandomValues ELSE {0}

\* get_backoff_time without the clamp of the computed backoff to max_backoff.
get_backoff_time_Unclamped(cfg, attempt, retry_after, random) ==
    IF ~IsNone(retry_after)
    THEN Min(Seconds(Get(retry_after)), cfg.max_backoff)
    ELSE LET backoff == cfg.backoff_factor * Pow2(attempt)
         IN  IF cfg.jitter
             THEN (backoff * (4 + random)) \div 8
             ELSE backoff

\* get_backoff_time returning retry_after as it is, above max_backoff too.
get_backoff_time_RetryAfterUnclamped(cfg, attempt, retry_after, random) ==
    IF ~IsNone(retry_after)
    THEN Seconds(Get(retry_after))
    ELSE LET backoff == Min(cfg.backoff_factor * Pow2(attempt), cfg.max_backoff)
         IN  IF cfg.jitter
             THEN (backoff * (4 + random)) \div 8
             ELSE backoff

\* get_backoff_time with full jitter: the factor is random.random() alone.
get_backoff_time_FullJitter(cfg, attempt, retry_after, random) ==
    IF ~IsNone(retry_after)
    THEN Min(Seconds(Get(retry_after)), cfg.max_backoff)
    ELSE LET backoff == Min(cfg.backoff_factor * Pow2(attempt), cfg.max_backoff)
         IN  IF cfg.jitter
             THEN (backoff * random) \div 8
             ELSE backoff

\* get_backoff_time applying the jitter factor whatever cfg.jitter is.
get_backoff_time_AlwaysJitter(cfg, attempt, retry_after, random) ==
    IF ~IsNone(retry_after)
    THEN Min(Seconds(Get(retry_after)), cfg.max_backoff)
    ELSE LET backoff == Min(cfg.backoff_factor * Pow2(attempt), cfg.max_backoff)
         IN  (backoff * (4 + random)) \div 8

\* RetryConfig.get_backoff_time(attempt, retry_after=None), with the value
\* random.random() returns as the argument random. retry_after is in seconds,
\* the result in eighths of a second.
get_backoff_time(cfg, attempt, retry_after, random) ==
    IF ~IsNone(retry_after)
    THEN Min(Seconds(Get(retry_after)), cfg.max_backoff)
    ELSE LET backoff == Min(cfg.backoff_factor * Pow2(attempt), cfg.max_backoff)
         IN  IF cfg.jitter
             THEN (backoff * (4 + random)) \div 8
             ELSE backoff

\* ------------------------------------------------------------------------
\* The attempt function and the transport
\* ------------------------------------------------------------------------

\* What one call of a function gives: a response or a raised exception.
Outcome(response, exception) == [response |-> response, exception |-> exception]

ReturnOf(response) == Outcome(Some(response), None)

RaiseOf(exception) == Outcome(None, Some(exception))

\* The exceptions a transport send (or a caller's attempt function) raises:
\* httpx.ConnectError, httpx.ReadTimeout and one that is neither.
TransportErrors ==
    { PlainException("ConnectError", "connect", "None"),
      PlainException("ReadTimeout", "read", "None"),
      PlainException("ValueError", "Invalid value", "None") }

TransportOutcomes ==
    { ReturnOf(r) : r \in Responses } \cup { RaiseOf(e) : e \in TransportErrors }

\* make_request wrapping every exception of the transport in a ClientError.
make_request_WrapsAll(sent) ==
    IF IsNone(sent.exception) THEN sent
    ELSE LET e == Get(sent.exception)
         IN  IF IsInstance(e, "ConnectError")
             THEN RaiseOf(PlainException("ClientConnectionError", e.message, e.type))
             ELSE IF IsInstance(e, "ReadTimeout")
             THEN RaiseOf(PlainException("ClientTimeoutError", e.message, e.type))
             ELSE RaiseOf(PlainException("ClientError", e.message, e.type))

\* make_request raising its wrappers without `from e`, and with the cause
\* suppressed.
make_request_DropsCause(sent) ==
    IF IsNone(sent.exception) THEN sent
    ELSE LET e == Get(sent.exception)
         IN  IF IsInstance(e, "ConnectError")
             THEN RaiseOf(PlainException("ClientConnectionError", e.message, "None"))
             ELSE IF IsInstance(e, "ReadTimeout")
             THEN RaiseOf(PlainException("ClientTimeoutError", e.message, "None"))
             ELSE sent

\* Client._send_request.make_request applied to the outcome of client.send
make_request(sent) ==
    IF IsNone(sent.exception) THEN sent
    ELSE LET e == Get(sent.exception)
         IN  IF IsInstance(e, "ConnectError")
             THEN RaiseOf(PlainException("ClientConnectionError", e.message, e.type))
             ELSE IF IsInstance(e, "ReadTimeout")
             THEN RaiseOf(PlainException("ClientTimeoutError", e.message, e.type))
             ELSE sent

\* httpx.Response.is_success
is_success(response) == 200 <= response.status_code /\ response.status_code <= 299

\* f"{response.status_code} {response.reason_phrase}"
DefaultMessage(response) ==
    CASE response.status_code = 200 -> "200 OK"
      [] response.status_code = 204 -> "204 No Content"
      [] response.status_code = 301 -> "301 Moved Permanently"
      [] response.status_code = 401 -> "401 Unauthorized"
      [] response.status_code = 403 -> "403 Forbidden"
      [] response.status_code = 418 -> "418 I'm a teapot"
      [] response.status_code = 502 -> "502 Bad Gateway"
      [] response.status_code = 404 -> "404 Not Found"
      [] response.status_code = 429 -> "429 Too Many Requests"
      [] response.status_code = 500 -> "500 Internal Server Error"
      [] response.status_code = 503 -> "503 Service Unavailable"
      [] OTHER -> "other"

\* The message with the `error` member of the body preferred to `message`.
ErrorMessage_ErrorFirst(response) ==
    IF IsNone(response.json) THEN DefaultMessage(response)
    ELSE LET error_data == Get(response.json)
         IN  IF ~error_data.is_dict THEN DefaultMessage(response)
             ELSE IF ~IsNone(error_data.error) THEN Get(error_data.error)
             ELSE IF ~IsNone(error_data.message) THEN Get(error_data.message)
             ELSE DefaultMessage(response)

\* The message raise_for_status gives its error.
ErrorMessage(response) ==
    IF IsNone(response.json) THEN DefaultMessage(response)
    ELSE LET error_data == Get(response.json)
         IN  IF ~error_data.is_dict THEN DefaultMessage(response)
             ELSE IF ~IsNone(error_data.message) THEN Get(error_data.message)
             ELSE IF ~IsNone(error_data.error) THEN Get(error_data.error)
             ELSE DefaultMessage(response)

\* raise_for_status with a branch for 500 <= status < 600 that raises a
\* ServerError.
raise_for_status_ServerError(response) ==
    IF is_success(response) THEN None
    ELSE LET message == ErrorMessage(response)
             status == response.status_code
         IN  IF status \in {401, 403}
             THEN Some(NewException("AuthenticationError", message, "None",
                                    Some(response), Some(status), None))
             ELSE IF status = 429
             THEN LET retry_after == HeadersGet(response, "Retry-After")
                  IN  IF ~Truthy(retry_after)
                      THEN Some(NewException("RateLimitError", message, "None",
                                             Some(response), Some(429), None))
                      ELSE IF IntParses(Get(retry_after))
                      THEN Some(NewException("RateLimitError", message, "None",
                                             Some(response), Some(429),
                                             Some(IntValue(Get(retry_after)))))
                      ELSE Some(PlainException("ValueError", "invalid literal for int()", "None"))
             ELSE IF status >= 500 /\ status < 600
             THEN Some(NewException("ServerError", message, "None",
                                    Some(response), Some(status), None))
             ELSE IF status >= 400
             THEN Some(NewException("HTTPError", message, "None",
                                    Some(response), Some(status), None))
             ELSE None

\* raise_for_status(response): the exception it raises, None when it returns.
raise_for_status(response) ==
    IF is_success(response) THEN None
    ELSE LET message == ErrorMessage(response)
             status == response.status_code
         IN  IF status \in {401, 403}
             THEN Some(NewException("AuthenticationError", message, "None",
                                    Some(response), Some(status), None))
             ELSE IF status = 429
             THEN LET retry_after == HeadersGet(response, "Retry-After")
                  IN  IF ~Truthy(retry_after)
                      THEN Some(NewException("RateLimitError", message, "None",
                                             Some(response), Some(429), None))
                      ELSE IF IntParses(Get(retry_after))
                      THEN Some(NewException("RateLimitError", message, "None",
                                             Some(response), Some(429),
                                             Some(IntValue(Get(retry_after)))))
                      ELSE Some(PlainException("ValueError", "invalid literal for int()", "None"))
             ELSE IF status >= 400
             THEN Some(NewException("HTTPError", message, "None",
                                    Some(response), Some(status), None))
             ELSE None

\* ------------------------------------------------------------------------
\* State
\* ------------------------------------------------------------------------

VARIABLES
    config,   \* the RetryConfig
    handler,  \* the RetryHandler built on it: [config |-> ...]
    client,   \* the rest_client Client: retry_handler, raise_for_status_enabled, _client
    transports, \* the httpx.Client objects created so far, "open" or "closed";
              \* client._client holds the index of one of them
    call,     \* call id -> the locals of one invocation of execute, execute_async
              \* or Client.request, and what the invocation gave its caller
    query     \* the last direct call of should_retry or get_backoff_time on
              \* the config, or of raise_for_status, with its arguments and
              \* its result

vars == <<config, handler, client, transports, call, query>>

Calls == DOMAIN call

\* What an invocation gave its caller: kind is "pending", "return" or "raise".
Result(kind, response, exception) ==
    [kind |-> kind, response |-> response, exception |-> exception]

\* The locals of an invocation that has not started, with what the model
\* records about it: the number of calls of the attempt function (ncalls), what
\* the transport and the attempt function gave last (last_sent, last_outcome),
\* the number of sleeps entered (nwaits) and the duration of the last (wait).
NewCall(mode) ==
    [ mode           |-> mode,
      pc             |-> "idle",
      attempt        |-> 0,
      response       |-> None,
      last_exception |-> None,
      ncalls         |-> 0,
      nwaits         |-> 0,
      wait           |-> None,
      last_sent      |-> None,
      last_outcome   |-> None,
      result         |-> Result("pending", None, None) ]

\* The handler running with a budget of one retry more than configured.
ConfigOf_ExtraRetry(rec) ==
    LET cfg == IF rec.mode = "request" THEN Get(client.retry_handler).config
               ELSE handler.config
    IN  [cfg EXCEPT !.max_retries = @ + 1]

\* The handler keeping one budget for all its invocations: an invocation has
\* one retry less once another invocation has called its attempt function.
ConfigOf_SharedBudget(rec) ==
    LET cfg == IF rec.mode = "request" THEN Get(client.retry_handler).config
               ELSE handler.config
        used == IF \E d \in Calls : call[d] # rec /\ call[d].ncalls >= 1 THEN 1 ELSE 0
    IN  [cfg EXCEPT !.max_retries = @ - used]

\* The RetryConfig an invocation runs under.
ConfigOf(rec) ==
    IF rec.mode = "request" THEN Get(client.retry_handler).config ELSE handler.config

\* The loop over range(self.config.max_retries): one iteration short.
AttemptRange_Short(cfg) == 0..(cfg.max_retries - 1)

\* for attempt in range(self.config.max_retries + 1)
AttemptRange(cfg) == 0..cfg.max_retries

\* time.sleep raises ValueError for a negative duration; asyncio.sleep returns at once.
SleepRaises(mode, t) == mode # "execute_async" /\ t < 0

SleepError == PlainException("ValueError", "sleep length must be non-negative", "None")

\* Client._send_request after the response is there: raise_for_status if enabled.
SendTail(rec, response) ==
    LET raised == IF client.raise_for_status_enabled
                  THEN raise_for_status(response) ELSE None
    IN  IF ~IsNone(raised)
        THEN [rec EXCEPT !.pc = "done", !.result = Result("raise", None, raised)]
        ELSE [rec EXCEPT !.pc = "done", !.result = Result("return", Some(response), None)]

\* An exception leaves the invocation.
Raised(rec, e) ==
    [rec EXCEPT !.pc = "done", !.result = Result("raise", None, Some(e))]

\* execute raising the error mapped from a failing response instead of
\* returning the response.
Returned_RaisesMapped(rec, response) ==
    IF rec.mode = "request" THEN SendTail(rec, response)
    ELSE IF ~IsNone(raise_for_status(response))
    THEN Raised(rec, Get(raise_for_status(response)))
    ELSE [rec EXCEPT !.pc = "done", !.result = Result("return", Some(response), None)]

\* execute returns response (to Client._send_request in a request).
Returned(rec, response) ==
    IF rec.mode = "request" THEN SendTail(rec, response)
    ELSE [rec EXCEPT !.pc = "done", !.result = Result("return", Some(response), None)]

\* The loop without its wait: the next attempt index is taken at once.
Sleeping_Skipped(rec, t, block) == [rec EXCEPT !.pc = "for", !.attempt = @ + 1]

\* The sleep primitive is entered for t; block is "try" or "except".
Sleeping(rec, t, block) ==
    [rec EXCEPT !.pc = IF block = "try" THEN "sleep_try" ELSE "sleep_except",
                !.nwaits = @ + 1,
                !.wait = Some(t)]

\* The loop going round without taking the next index.
NextIteration_SameIndex(rec) == [rec EXCEPT !.pc = "for"]

\* The end of the loop body: the for statement takes the next index.
NextIteration(rec) == [rec EXCEPT !.pc = "for", !.attempt = @ + 1]

\* RetryHandler.execute, the except block: e was raised inside the try block.
ExceptBlock(cfg, rec, e, random) ==
    LET rec1 == [rec EXCEPT !.last_exception = Some(e)]
    IN  IF ~should_retry(cfg, rec.attempt, None, Some(e))
        THEN Raised(rec1, e)
        ELSE IF rec.attempt < cfg.max_retries
        THEN LET backoff_time == get_backoff_time(cfg, rec.attempt, None, random)
             IN  IF SleepRaises(rec.mode, backoff_time)
                 THEN Raised(rec1, SleepError)
                 ELSE Sleeping(rec1, backoff_time, "except")
        ELSE NextIteration(rec1)

\* The try block guarded by `except BaseException`: every exception is taken.
RaisedInTry_CatchesAll(cfg, rec, e, random) == ExceptBlock(cfg, rec, e, random)

\* An exception e is raised inside the try block: `except Exception` takes it
\* if it is an Exception, otherwise it leaves the invocation.
RaisedInTry(cfg, rec, e, random) ==
    IF IsInstance(e, "Exception") THEN ExceptBlock(cfg, rec, e, random)
    ELSE Raised(rec, e)

\* The Retry-After value read with a header that is no integer taken as 0.
ExtractRetryAfter_BadHeaderIsZero(response) ==
    IF response.status_code = 429
    THEN LET retry_after_header == HeadersGet(response, "Retry-After")
         IN  IF ~Truthy(retry_after_header) THEN None
             ELSE IF IntParses(Get(retry_after_header))
             THEN Some(IntValue(Get(retry_after_header)))
             ELSE Some(0)
    ELSE None

\* The Retry-After value execute reads from a response it retries.
ExtractRetryAfter(response) ==
    IF response.status_code = 429
    THEN LET retry_after_header == HeadersGet(response, "Retry-After")
         IN  IF Truthy(retry_after_header) /\ IntParses(Get(retry_after_header))
             THEN Some(IntValue(Get(retry_after_header)))
             ELSE None
    ELSE None

\* RetryHandler.execute, the try block after func() gave outcome.
TryBlock(cfg, rec, outcome, random) ==
    IF ~IsNone(outcome.exception)
    THEN RaisedInTry(cfg, rec, Get(outcome.exception), random)
    ELSE LET response == Get(outcome.response)
             rec1 == [rec EXCEPT !.response = Some(response)]
         IN  IF ~should_retry(cfg, rec.attempt, Some(response), None)
             THEN Returned(rec1, response)
             ELSE LET retry_after == ExtractRetryAfter(response)
                  IN  IF rec.attempt < cfg.max_retries
                      THEN LET backoff_time ==
                                   get_backoff_time(cfg, rec.attempt, retry_after, random)
                           IN  IF SleepRaises(rec.mode, backoff_time)
                               THEN RaisedInTry(cfg, rec1, SleepError, random)
                               ELSE Sleeping(rec1, backoff_time, "try")
                      ELSE NextIteration(rec1)

\* The code after the loop of execute.
AfterLoop(rec) ==
    IF ~IsNone(rec.response) THEN Returned(rec, Get(rec.response))
    ELSE IF ~IsNone(rec.last_exception) THEN Raised(rec, Get(rec.last_exception))
    ELSE Raised(rec, PlainException("RuntimeError", "Retry logic failed unexpectedly", "None"))

\* The outcome of the attempt function of an invocation, given what the
\* transport (or the caller's function) did.
FuncOutcome(rec, sent) == IF rec.mode = "request" THEN make_request(sent) ELSE sent

\* ------------------------------------------------------------------------
\* Initial states
\* ------------------------------------------------------------------------

MaxRetriesValues == (0 - 1)..MaxRetriesBound

RetryStatusCodeArgs == { None, Some({}), Some({503}), Some({200, 429}) }

BackoffFactors == { Seconds(1) \div 2, Seconds(2) }

MaxBackoffs == { Seconds(3), Seconds(60) }

\* The configurations of the model: every retry_status_codes argument with
\* the default timing and no jitter, and every timing with the default codes.
RetryConfigs ==
    { RetryConfig(n, codes, Seconds(1) \div 2, Seconds(60), FALSE) :
        n \in MaxRetriesValues, codes \in RetryStatusCodeArgs }
    \cup
    { RetryConfig(n, None, f, m, j) :
        n \in MaxRetriesValues, f \in BackoffFactors, m \in MaxBackoffs, j \in BOOLEAN }

Modes == {"execute", "execute_async", "request"}

\* The default of the field ClientConfig.retry: RetryConfig().
ClientConfig_retry == RetryConfig(3, None, Seconds(1) \div 2, Seconds(60), TRUE)

\* Client.__init__ leaving out retry when it is None, so that ClientConfig
\* takes its default.
NewClient_ConfigDefault(retry, raise_for_status_enabled) ==
    [ retry_handler            |-> IF IsNone(retry)
                                   THEN Some([config |-> ClientConfig_retry])
                                   ELSE Some([config |-> Get(retry)]),
      raise_for_status_enabled |-> raise_for_status_enabled,
      _client                  |-> None ]

\* Client.__init__(retry=..., raise_for_status_enabled=...)
NewClient(retry, raise_for_status_enabled) ==
    [ retry_handler            |-> IF IsNone(retry) THEN None
                                   ELSE Some([config |-> Get(retry)]),
      raise_for_status_enabled |-> raise_for_status_enabled,
      _client                  |-> None ]

\* The property Client.client: the transport handle is created on first use.
\* Gives the client and the transports after the access.
Client_client(cl, tr) ==
    IF IsNone(cl._client)
    THEN [ client     |-> [cl EXCEPT !._client = Some(Len(tr) + 1)],
           transports |-> Append(tr, "open") ]
    ELSE [ client |-> cl, transports |-> tr ]

\* close() closing the handle but keeping the reference to it in _client.
close_KeepsReference(cl, tr) ==
    IF ~IsNone(cl._client)
    THEN [ client     |-> cl,
           transports |-> [tr EXCEPT ![Get(cl._client)] = "closed"] ]
    ELSE [ client |-> cl, transports |-> tr ]

\* Client.close(): the handle, if there is one, is closed and dropped.
close(cl, tr) ==
    IF ~IsNone(cl._client)
    THEN [ client     |-> [cl EXCEPT !._client = None],
           transports |-> [tr EXCEPT ![Get(cl._client)] = "closed"] ]
    ELSE [ client |-> cl, transports |-> tr ]

\* No direct call of a RetryConfig method has been made.
NoQuery ==
    [ fn |-> "none", attempt |-> 0, response |-> None, exception |-> None,
      retry_after |-> None, random |-> 0, retry |-> FALSE, backoff |-> 0,
      raised |-> None ]

\* One invocation, of any mode, under any configuration.
Init ==
    /\ config \in RetryConfigs
    /\ handler = [config |-> config]
    /\ transports = << >>
    /\ query = NoQuery
    /\ \E mode \in Modes :
         /\ call = [c \in {1} |-> NewCall(mode)]
         /\ IF mode = "request"
            THEN \E retry \in {None, Some(config)}, enabled \in BOOLEAN :
                     client = NewClient(retry, enabled)
            ELSE client = NewClient(Some(config), TRUE)

\* ------------------------------------------------------------------------
\* Actions
\* ------------------------------------------------------------------------

\* execute taking one retry off the budget of the shared RetryConfig when it
\* is entered.
Execute_ConsumesBudget(c) ==
    /\ call[c].pc = "idle"
    /\ call[c].mode \in {"execute", "execute_async"}
    /\ call' = [call EXCEPT ![c].pc = "for"]
    /\ config' = [config EXCEPT !.max_retries = @ - 1]
    /\ handler' = [config |-> config']
    /\ UNCHANGED <<client, transports, query>>

\* execute / execute_async is entered: last_exception = None, response = None.
Execute(c) ==
    /\ call[c].pc = "idle"
    /\ call[c].mode \in {"execute", "execute_async"}
    /\ call' = [call EXCEPT ![c].pc = "for"]
    /\ UNCHANGED <<config, handler, client, transports, query>>

\* Client.request with a retry handler: the request is built, which creates
\* the transport handle, and execute(make_request) is entered.
RequestWithRetry(c) ==
    /\ call[c].pc = "idle"
    /\ call[c].mode = "request"
    /\ ~IsNone(client.retry_handler)
    /\ client' = Client_client(client, transports).client
    /\ transports' = Client_client(client, transports).transports
    /\ call' = [call EXCEPT ![c].pc = "for"]
    /\ UNCHANGED <<config, handler, query>>

\* Client.request without a retry handler: one make_request().
RequestDirect(c) ==
    /\ call[c].pc = "idle"
    /\ call[c].mode = "request"
    /\ IsNone(client.retry_handler)
    /\ client' = Client_client(client, transports).client
    /\ transports' = Client_client(client, transports).transports
    /\ \E sent \in TransportOutcomes :
         LET outcome == make_request(sent)
             rec == [call[c] EXCEPT !.ncalls = @ + 1,
                                    !.last_sent = Some(sent),
                                    !.last_outcome = Some(outcome)]
         IN  call' = [call EXCEPT ![c] =
                        IF ~IsNone(outcome.exception)
                        THEN Raised(rec, Get(outcome.exception))
                        ELSE SendTail(rec, Get(outcome.response))]
    /\ UNCHANGED <<config, handler, query>>

\* One iteration of the loop of execute: func() is called and its outcome
\* handled, up to the return, the raise or the entry into the sleep.
Attempt(c) ==
    /\ call[c].pc = "for"
    /\ call[c].attempt \in AttemptRange(ConfigOf(call[c]))
    /\ \E sent \in TransportOutcomes, random \in RandomDraws(ConfigOf(call[c])) :
         LET outcome == FuncOutcome(call[c], sent)
             rec == [call[c] EXCEPT !.ncalls = @ + 1,
                                    !.last_sent = Some(sent),
                                    !.last_outcome = Some(outcome)]
         IN  call' = [call EXCEPT ![c] =
                        TryBlock(ConfigOf(call[c]), rec, outcome, random)]
    /\ UNCHANGED <<config, handler, client, transports, query>>

\* The sleep returns: the loop goes on with the next attempt index.
Wake(c) ==
    /\ call[c].pc \in {"sleep_try", "sleep_except"}
    /\ call' = [call EXCEPT ![c] = NextIteration(call[c])]
    /\ UNCHANGED <<config, handler, client, transports, query>>

\* The task running execute_async is cancelled while it is suspended in
\* asyncio.sleep: CancelledError is raised at the await.
Cancel(c) ==
    /\ call[c].mode = "execute_async"
    /\ call[c].pc \in {"sleep_try", "sleep_except"}
    /\ LET e == PlainException("CancelledError", "", "None")
       IN  call' = [call EXCEPT ![c] =
                      IF call[c].pc = "sleep_try"
                      THEN RaisedInTry(ConfigOf(call[c]), call[c], e, 0)
                      ELSE Raised(call[c], e)]
    /\ UNCHANGED <<config, handler, client, transports, query>>

\* The range of the loop is used up: the code after the loop runs.
ExhaustLoop(c) ==
    /\ call[c].pc = "for"
    /\ call[c].attempt \notin AttemptRange(ConfigOf(call[c]))
    /\ call' = [call EXCEPT ![c] = AfterLoop(call[c])]
    /\ UNCHANGED <<config, handler, client, transports, query>>

Next ==
    \/ \E c \in Calls : Execute(c)
    \/ \E c \in Calls : RequestWithRetry(c)
    \/ \E c \in Calls : RequestDirect(c)
    \/ \E c \in Calls : Attempt(c)
    \/ \E c \in Calls : Wake(c)
    \/ \E c \in Calls : Cancel(c)
    \/ \E c \in Calls : ExhaustLoop(c)

Spec == Init /\ [][Next]_vars

\* ------------------------------------------------------------------------
\* One invocation whose steps are eventually taken
\* ------------------------------------------------------------------------

\* Every call of the attempt function and every wait eventually returns or
\* raises, and the interpreter goes on running the invocation: a step that
\* stays possible is eventually taken.
SpecFair == Init /\ [][Next]_vars /\ WF_vars(Next)

\* ------------------------------------------------------------------------
\* The methods of RetryConfig and raise_for_status called directly
\* ------------------------------------------------------------------------

\* The exceptions should_retry is asked about: those of the transport and
\* the library's wrappers of them.
QueryExceptions ==
    TransportErrors
    \cup { PlainException("ClientConnectionError", "connect", "ConnectError"),
           PlainException("ClientTimeoutError", "read", "ReadTimeout") }

\* The retry_after arguments get_backoff_time is asked about, in seconds.
QueryRetryAfters == { None, Some(0 - 1), Some(0), Some(2), Some(99) }

InitPolicy ==
    /\ config \in RetryConfigs
    /\ handler = [config |-> config]
    /\ transports = << >>
    /\ client = NewClient(Some(config), TRUE)
    /\ call = [c \in {} |-> NewCall("execute")]
    /\ query = NoQuery

\* config.should_retry(attempt, response, exception)
AskShouldRetry ==
    /\ query.fn = "none"
    /\ \E attempt \in 0..MaxAttemptIndex,
          response \in {None} \cup { Some(r) : r \in Responses },
          exception \in {None} \cup { Some(e) : e \in QueryExceptions } :
         query' = [NoQuery EXCEPT !.fn = "should_retry",
                                  !.attempt = attempt,
                                  !.response = response,
                                  !.exception = exception,
                                  !.retry = should_retry(config, attempt, response, exception)]
    /\ UNCHANGED <<config, handler, client, transports, call>>

\* config.get_backoff_time(attempt, retry_after)
AskBackoffTime ==
    /\ query.fn = "none"
    /\ \E attempt \in 0..MaxAttemptIndex,
          retry_after \in QueryRetryAfters,
          random \in RandomDraws(config) :
         query' = [NoQuery EXCEPT !.fn = "get_backoff_time",
                                  !.attempt = attempt,
                                  !.retry_after = retry_after,
                                  !.random = random,
                                  !.backoff = get_backoff_time(config, attempt, retry_after, random)]
    /\ UNCHANGED <<config, handler, client, transports, call>>

\* The statuses raise_for_status is asked about.
QueryStatuses == Statuses \cup {204, 403, 418, 502}

\* The responses raise_for_status is asked about: every status with every
\* Retry-After header and every body.
QueryResponses ==
    { NewResponse(s, h, j) :
        s \in QueryStatuses,
        h \in {None} \cup { Some(v) : v \in RetryAfterValues },
        j \in {None} \cup { Some(v) : v \in JsonValues } }

\* raise_for_status(response): raised is the exception it raises, None when
\* it returns.
AskRaiseForStatus ==
    /\ query.fn = "none"
    /\ \E response \in QueryResponses :
         query' = [NoQuery EXCEPT !.fn = "raise_for_status",
                                  !.response = Some(response),
                                  !.raised = raise_for_status(response)]
    /\ UNCHANGED <<config, handler, client, transports, call>>

\* The caller drops the result; the config can be asked again.
DropResult ==
    /\ query.fn # "none"
    /\ query' = NoQuery
    /\ UNCHANGED <<config, handler, client, transports, call>>

NextPolicy == AskShouldRetry \/ AskBackoffTime \/ AskRaiseForStatus \/ DropResult

SpecPolicy == InitPolicy /\ [][NextPolicy]_vars

\* ------------------------------------------------------------------------
\* One invocation and direct calls of the RetryConfig methods on its config
\* ------------------------------------------------------------------------

\* The configurations: no budget at all (max_retries = -1) with jitter, and
\* one retry, on a 503 only, without.
FrameConfigs ==
    { RetryConfig(0 - 1, None, Seconds(1) \div 2, Seconds(60), TRUE),
      RetryConfig(1, Some({503}), Seconds(1) \div 2, Seconds(60), FALSE) }

\* A RetryHandler, one invocation of execute or execute_async on it, and a
\* caller that holds the same RetryConfig.
InitFrame ==
    /\ config \in FrameConfigs
    /\ handler = [config |-> config]
    /\ transports = << >>
    /\ client = NewClient(Some(config), TRUE)
    /\ query = NoQuery
    /\ \E mode \in {"execute", "execute_async"} : call = [c \in {1} |-> NewCall(mode)]

\* The steps of the invocation and the direct calls of should_retry and
\* get_backoff_time, in any order.
NextFrame ==
    \/ \E c \in Calls : Execute(c)
    \/ \E c \in Calls : Attempt(c)
    \/ \E c \in Calls : Wake(c)
    \/ \E c \in Calls : Cancel(c)
    \/ \E c \in Calls : ExhaustLoop(c)
    \/ AskShouldRetry
    \/ AskBackoffTime
    \/ DropResult

SpecFrame == InitFrame /\ [][NextFrame]_vars

\* ------------------------------------------------------------------------
\* Concurrent invocations on one handler
\* ------------------------------------------------------------------------

\* The budgets of the shared configuration: none at all (max_retries = -1)
\* and one retry.
ConcurrentRetries == { 0 - 1, 1 }

\* The executors the two invocations run: two threads in execute, two tasks
\* in execute_async, or one of each.
ConcurrentModes ==
    { <<"execute", "execute">>,
      <<"execute_async", "execute_async">>,
      <<"execute", "execute_async">> }

\* Two invocations on one RetryHandler and its RetryConfig.
InitConcurrent ==
    /\ \E n \in ConcurrentRetries :
         config = RetryConfig(n, None, Seconds(1) \div 2, Seconds(60), FALSE)
    /\ handler = [config |-> config]
    /\ transports = << >>
    /\ client = NewClient(Some(config), TRUE)
    /\ query = NoQuery
    /\ \E modes \in ConcurrentModes :
         call = [c \in {1, 2} |-> NewCall(modes[c])]

\* The steps of the invocations interleave in any order.
NextConcurrent ==
    \/ \E c \in Calls : Execute(c)
    \/ \E c \in Calls : Attempt(c)
    \/ \E c \in Calls : Wake(c)
    \/ \E c \in Calls : Cancel(c)
    \/ \E c \in Calls : ExhaustLoop(c)

SpecConcurrent == InitConcurrent /\ [][NextConcurrent]_vars

\* ------------------------------------------------------------------------
\* The transport handle of a Client
\* ------------------------------------------------------------------------

\* The largest number of transport handles one Client creates in the model.
MaxHandles == 3

\* The exceptions the body of a `with` block raises.
BodyExceptions ==
    { PlainException("ValueError", "Invalid value", "None"),
      PlainException("ClientConnectionError", "connect", "ConnectError") }

\* Client.__exit__(exc_type, exc_val, exc_tb): close(), then `return False`.
Client_exit(cl, tr) ==
    [ client     |-> close(cl, tr).client,
      transports |-> close(cl, tr).transports,
      suppress   |-> FALSE ]

\* A new Client and one `with client:` block that has not been entered.
InitLifecycle ==
    /\ config = RetryConfig(3, None, Seconds(1) \div 2, Seconds(60), TRUE)
    /\ handler = [config |-> config]
    /\ transports = << >>
    /\ query = NoQuery
    /\ call = [c \in {1} |-> NewCall("with")]
    /\ \E retry \in {None, Some(config)}, enabled \in BOOLEAN :
         client = NewClient(retry, enabled)

\* Client.__enter__: `return self`.
Enter(c) ==
    /\ call[c].mode = "with"
    /\ call[c].pc = "idle"
    /\ call' = [call EXCEPT ![c].pc = "body"]
    /\ UNCHANGED <<config, handler, client, transports, query>>

\* A request is made on the client, inside the block or outside of it: the
\* property Client.client is read.
UseClient ==
    /\ ~IsNone(client._client) \/ Len(transports) < MaxHandles
    /\ client' = Client_client(client, transports).client
    /\ transports' = Client_client(client, transports).transports
    /\ UNCHANGED <<config, handler, call, query>>

\* client.close() is called, inside the block or outside of it.
CloseClient ==
    /\ client' = close(client, transports).client
    /\ transports' = close(client, transports).transports
    /\ UNCHANGED <<config, handler, call, query>>

\* The body of the block ends normally: __exit__(None, None, None).
ExitNormal(c) ==
    /\ call[c].mode = "with"
    /\ call[c].pc = "body"
    /\ client' = Client_exit(client, transports).client
    /\ transports' = Client_exit(client, transports).transports
    /\ call' = [call EXCEPT ![c].pc = "done",
                            ![c].result = Result("return", None, None)]
    /\ UNCHANGED <<config, handler, query>>

\* The body of the block raises e: __exit__ is called with e, and e goes on
\* to the caller unless __exit__ returns a true value.
ExitRaise(c) ==
    /\ call[c].mode = "with"
    /\ call[c].pc = "body"
    /\ client' = Client_exit(client, transports).client
    /\ transports' = Client_exit(client, transports).transports
    /\ \E e \in BodyExceptions :
         call' = [call EXCEPT
                    ![c].pc = "done",
                    ![c].last_exception = Some(e),
                    ![c].result = IF Client_exit(client, transports).suppress
                                  THEN Result("return", None, None)
                                  ELSE Result("raise", None, Some(e))]
    /\ UNCHANGED <<config, handler, query>>

NextLifecycle ==
    \/ \E c \in Calls : Enter(c)
    \/ UseClient
    \/ CloseClient
    \/ \E c \in Calls : ExitNormal(c)
    \/ \E c \in Calls : ExitRaise(c)

SpecLifecycle == InitLifecycle /\ [][NextLifecycle]_vars

\* ------------------------------------------------------------------------
\* Two executions given the same outcomes
\* ------------------------------------------------------------------------

\* The configurations the two executions run under: the default status codes
\* and backoff factor, every budget, both max_backoff values, jitter on and off.
TwinConfigs ==
    { RetryConfig(n, None, Seconds(1) \div 2, m, j) :
        n \in MaxRetriesValues, m \in MaxBackoffs, j \in BOOLEAN }

\* Two invocations of the same executor on one RetryHandler.
InitTwin ==
    /\ config \in TwinConfigs
    /\ handler = [config |-> config]
    /\ transports = << >>
    /\ client = NewClient(Some(config), TRUE)
    /\ query = NoQuery
    /\ \E mode \in {"execute", "execute_async"} :
         call = [c \in {1, 2} |-> NewCall(mode)]

\* Both invocations are entered.
TwinExecute ==
    /\ \A c \in Calls : call[c].pc = "idle"
    /\ call' = [c \in Calls |-> [call[c] EXCEPT !.pc = "for"]]
    /\ UNCHANGED <<config, handler, client, transports, query>>

\* Both invocations run one iteration of the loop and their attempt functions
\* give the same outcome; random.random() would give each its own value.
TwinAttempt ==
    /\ \A c \in Calls :
         call[c].pc = "for" /\ call[c].attempt \in AttemptRange(ConfigOf(call[c]))
    /\ \E sent \in TransportOutcomes, randoms \in [Calls -> RandomValues] :
         call' = [c \in Calls |->
                    TryBlock(ConfigOf(call[c]),
                             [call[c] EXCEPT !.ncalls = @ + 1,
                                             !.last_sent = Some(sent),
                                             !.last_outcome = Some(sent)],
                             sent, randoms[c])]
    /\ UNCHANGED <<config, handler, client, transports, query>>

\* The sleeps of the invocations that are waiting return.
TwinWake ==
    /\ \E c \in Calls : call[c].pc \in {"sleep_try", "sleep_except"}
    /\ call' = [c \in Calls |->
                  IF call[c].pc \in {"sleep_try", "sleep_except"}
                  THEN NextIteration(call[c]) ELSE call[c]]
    /\ UNCHANGED <<config, handler, client, transports, query>>

\* The ranges of the loops are used up.
TwinExhaust ==
    /\ \A c \in Calls :
         call[c].pc = "for" /\ call[c].attempt \notin AttemptRange(ConfigOf(call[c]))
    /\ call' = [c \in Calls |-> AfterLoop(call[c])]
    /\ UNCHANGED <<config, handler, client, transports, query>>

NextTwin == TwinExecute \/ TwinAttempt \/ TwinWake \/ TwinExhaust

SpecTwin == InitTwin /\ [][NextTwin]_vars

\* ------------------------------------------------------------------------
\* The second client of the repository: gemini/client.py
\* ------------------------------------------------------------------------

\* float(str) for a decimal literal: an optional sign, digits and an optional
\* fraction. The value is in eighths of a second, rounded down.
Unsigned(s) == IF Len(s) >= 1 /\ s[1] \in {"-", "+"} THEN Tail(s) ELSE s

DotAt(u) == CHOOSE i \in 1..Len(u) : u[i] = "."

DecimalParses(u) ==
    \/ AllDigits(u)
    \/ /\ Cardinality({ i \in 1..Len(u) : u[i] = "." }) = 1
       /\ AllDigits(SubSeq(u, 1, DotAt(u) - 1))
       /\ AllDigits(SubSeq(u, DotAt(u) + 1, Len(u)))

\* TRUE iff float(s) returns; otherwise float(s) raises ValueError.
FloatParses(s) == DecimalParses(Unsigned(s))

DecimalEighths(u) ==
    IF AllDigits(u) THEN 8 * DigitsValue(u)
    ELSE LET fraction == SubSeq(u, DotAt(u) + 1, Len(u))
         IN  8 * DigitsValue(SubSeq(u, 1, DotAt(u) - 1))
               + (8 * DigitsValue(fraction)) \div (10 ^ Len(fraction))

FloatEighths(s) ==
    IF s[1] = "-" THEN 0 - DecimalEighths(Unsigned(s)) ELSE DecimalEighths(Unsigned(s))

\* The dataclass RetryConfig of gemini/client.py; delays in eighths of a second.
Gemini_RetryConfig(max_attempts, base_delay, max_delay, jitter, retry_codes) ==
    [ max_attempts |-> max_attempts,
      base_delay   |-> base_delay,
      max_delay    |-> max_delay,
      jitter       |-> jitter,
      retry_codes  |-> retry_codes ]

\* The values random.uniform(0.5, 1.5) takes in the model, in eighths.
UniformValues == {4, 6, 8, 10, 12}

\* random.uniform is called only when jitter is on.
UniformDraws(cfg) == IF cfg.jitter THEN UniformValues ELSE {8}

\* _calculate_backoff(attempt, config, retry_after=None), with the value
\* random.uniform(0.5, 1.5) returns as the argument uniform.
Gemini_calculate_backoff(attempt, cfg, retry_after, uniform) ==
    IF ~IsNone(retry_after) THEN Get(retry_after)
    ELSE LET delay == Min(cfg.max_delay, cfg.base_delay * Pow2(attempt))
         IN  IF cfg.jitter THEN (delay * uniform) \div 8 ELSE delay

\* An HTTP error of gemini/exceptions.py: original_error (cause) is None.
Gemini_HTTPError(type, message, status) ==
    NewException(type, message, "None", None, Some(status), None)

\* _map_exception without the branch for 500..599: a server status maps to
\* the generic HTTPError.
Gemini_map_exception_NoServerError(e) ==
    IF IsInstance(e, "TimeoutException")
    THEN PlainException("GeminiTimeoutError", "Request timed out", e.type)
    ELSE IF IsInstance(e, "NetworkError")
    THEN PlainException("GeminiConnectionError", "Network error occurred", e.type)
    ELSE IF IsInstance(e, "HTTPStatusError")
    THEN LET status == Get(e.response).status_code
         IN  IF status \in {401, 403}
             THEN Gemini_HTTPError("GeminiAuthenticationError", "Authentication failed", status)
             ELSE IF status = 429
             THEN Gemini_HTTPError("GeminiRateLimitError", "Rate limit exceeded", status)
             ELSE Gemini_HTTPError("GeminiHTTPError", "HTTP error", status)
    ELSE PlainException("GeminiClientError", "Unexpected error", e.type)

\* _map_exception(e)
Gemini_map_exception(e) ==
    IF IsInstance(e, "TimeoutException")
    THEN PlainException("GeminiTimeoutError", "Request timed out", e.type)
    ELSE IF IsInstance(e, "NetworkError")
    THEN PlainException("GeminiConnectionError", "Network error occurred", e.type)
    ELSE IF IsInstance(e, "HTTPStatusError")
    THEN LET status == Get(e.response).status_code
         IN  IF status \in {401, 403}
             THEN Gemini_HTTPError("GeminiAuthenticationError", "Authentication failed", status)
             ELSE IF status = 429
             THEN Gemini_HTTPError("GeminiRateLimitError", "Rate limit exceeded", status)
             ELSE IF 500 <= status /\ status < 600
             THEN Gemini_HTTPError("GeminiServerError", "Server error", status)
             ELSE Gemini_HTTPError("GeminiHTTPError", "HTTP error", status)
    ELSE PlainException("GeminiClientError", "Unexpected error", e.type)

\* _BaseClient._should_retry(status_code)
Gemini_should_retry(cfg, status_code) == status_code \in cfg.retry_codes

\* _BaseClient._get_retry_after(response): Optional[float], in eighths.
Gemini_get_retry_after(response) ==
    LET header == HeadersGet(response, "Retry-After")
    IN  IF ~Truthy(header) THEN None
        ELSE IF FloatParses(Get(header)) THEN Some(FloatEighths(Get(header)))
        ELSE None

\* httpx.Response.raise_for_status(): the HTTPStatusError it raises for a
\* response that is not a success, None when it returns.
Response_raise_for_status(response) ==
    IF is_success(response) THEN None
    ELSE Some(NewException("HTTPStatusError", DefaultMessage(response), "None",
                           Some(response), None, None))

\* time.sleep / asyncio.sleep(sleep_time) inside an except block of _request:
\* time.sleep raises ValueError for a negative duration, which leaves _request.
Gemini_sleep(rec, sleep_time) ==
    IF rec.mode = "gemini" /\ sleep_time < 0
    THEN Raised(rec, SleepError)
    ELSE Sleeping(rec, sleep_time, "except")

\* One iteration of the loop of Client._request / AsyncClient._request after
\* self._client.request(...) gave sent.
Gemini_Iteration(cfg, rec, sent, uniform) ==
    LET raised == IF ~IsNone(sent.exception) THEN sent.exception
                  ELSE Response_raise_for_status(Get(sent.response))
    IN  IF IsNone(raised)
        THEN [rec EXCEPT !.pc = "done",
                         !.response = sent.response,
                         !.result = Result("return", sent.response, None)]
        ELSE LET e == Get(raised)
             IN  IF IsInstance(e, "HTTPStatusError")
                 THEN IF /\ rec.attempt < cfg.max_attempts
                         /\ Gemini_should_retry(cfg, Get(e.response).status_code)
                      THEN Gemini_sleep(rec,
                               Gemini_calculate_backoff(rec.attempt, cfg,
                                   Gemini_get_retry_after(Get(e.response)), uniform))
                      ELSE Raised(rec, Gemini_map_exception(e))
                 ELSE IF IsInstance(e, "NetworkError") \/ IsInstance(e, "TimeoutException")
                 THEN IF rec.attempt < cfg.max_attempts
                      THEN Gemini_sleep(rec,
                               Gemini_calculate_backoff(rec.attempt, cfg, None, uniform))
                      ELSE Raised(rec, Gemini_map_exception(e))
                 ELSE IF IsInstance(e, "Exception")
                 THEN Raised(rec, Gemini_map_exception(e))
                 ELSE Raised(rec, e)

\* The Retry-After headers of the model for the gemini client: those of
\* RetryAfterValues and "1.5".
GeminiRetryAfterValues == RetryAfterValues \cup { <<"1", ".", "5">> }

GeminiResponses ==
    { NewResponse(s, None, None) : s \in Statuses }
    \cup { NewResponse(s, Some(h), None) : s \in {429, 503}, h \in GeminiRetryAfterValues }

GeminiOutcomes ==
    { ReturnOf(r) : r \in GeminiResponses } \cup { RaiseOf(e) : e \in TransportErrors }

GeminiConfigs ==
    { Gemini_RetryConfig(n, Seconds(1), m, j, codes) :
        n \in MaxRetriesValues, m \in MaxBackoffs, j \in BOOLEAN,
        codes \in { DefaultRetryStatusCodes, {503} } }

\* A gemini Client or AsyncClient (its httpx client is created with it) and
\* one invocation of _request.
InitGemini ==
    /\ config \in GeminiConfigs
    /\ handler = [config |-> config]
    /\ client = [config |-> [retry |-> config], _client |-> Some(1)]
    /\ transports = <<"open">>
    /\ query = NoQuery
    /\ \E mode \in {"gemini", "gemini_async"} : call = [c \in {1} |-> NewCall(mode)]

\* _request is entered: attempt = 0.
Gemini_Request(c) ==
    /\ call[c].pc = "idle"
    /\ call[c].mode \in {"gemini", "gemini_async"}
    /\ call' = [call EXCEPT ![c].pc = "while", ![c].attempt = 0]
    /\ UNCHANGED <<config, handler, client, transports, query>>

\* One iteration of `while True`: the request is sent and its outcome handled,
\* up to the return, the raise or the entry into the sleep.
Gemini_Attempt(c) ==
    /\ call[c].pc = "while"
    /\ \E sent \in GeminiOutcomes, uniform \in UniformDraws(client.config.retry) :
         LET rec == [call[c] EXCEPT !.ncalls = @ + 1,
                                    !.last_sent = Some(sent),
                                    !.last_outcome = Some(sent)]
         IN  call' = [call EXCEPT ![c] =
                        Gemini_Iteration(client.config.retry, rec, sent, uniform)]
    /\ UNCHANGED <<config, handler, client, transports, query>>

\* The sleep returns: attempt += 1; continue.
Gemini_Wake(c) ==
    /\ call[c].pc = "sleep_except"
    /\ call' = [call EXCEPT ![c].pc = "while", ![c].attempt = @ + 1]
    /\ UNCHANGED <<config, handler, client, transports, query>>

NextGemini ==
    \/ \E c \in Calls : Gemini_Request(c)
    \/ \E c \in Calls : Gemini_Attempt(c)
    \/ \E c \in Calls : Gemini_Wake(c)

SpecGemini == InitGemini /\ [][NextGemini]_vars

\* ------------------------------------------------------------------------
\* RetryHandler.execute and gemini Client._request given the same outcomes
\* ------------------------------------------------------------------------

\* Invocation 1 is RetryHandler.execute under RetryConfig(max_retries = n,
\* retry_status_codes = codes), invocation 2 is gemini Client._request under
\* RetryConfig(max_attempts = n, retry_codes = codes); codes left out gives
\* each its default set. Jitter is off in both.
InitPair ==
    /\ \E n \in 0..MaxRetriesBound, codes \in RetryStatusCodeArgs :
         /\ config = RetryConfig(n, codes, Seconds(1) \div 2, Seconds(60), FALSE)
         /\ client = [ config  |-> [retry |->
                          Gemini_RetryConfig(n, Seconds(1), Seconds(60), FALSE,
                              IF IsNone(codes) THEN DefaultRetryStatusCodes
                              ELSE Get(codes))],
                       _client |-> Some(1) ]
    /\ handler = [config |-> config]
    /\ transports = <<"open">>
    /\ query = NoQuery
    /\ call = [c \in {1, 2} |-> NewCall(IF c = 1 THEN "execute" ELSE "gemini")]

\* Both invocations are entered.
PairRequest ==
    /\ \A c \in Calls : call[c].pc = "idle"
    /\ call' = [c \in Calls |->
                  [call[c] EXCEPT !.pc = IF call[c].mode = "execute"
                                         THEN "for" ELSE "while"]]
    /\ UNCHANGED <<config, handler, client, transports, query>>

\* Every invocation that has not ended makes its next attempt, and the
\* attempts have the same outcome.
PairAttempt ==
    /\ \A c \in Calls : call[c].pc \in {"for", "while", "done"}
    /\ \E c \in Calls : call[c].pc # "done"
    /\ \E sent \in TransportOutcomes :
         call' = [c \in Calls |->
                    LET rec == [call[c] EXCEPT !.ncalls = @ + 1,
                                               !.last_sent = Some(sent),
                                               !.last_outcome = Some(sent)]
                    IN  IF call[c].pc = "for"
                        THEN TryBlock(handler.config, rec, sent, 0)
                        ELSE IF call[c].pc = "while"
                        THEN Gemini_Iteration(client.config.retry, rec, sent, 8)
                        ELSE call[c]]
    /\ UNCHANGED <<config, handler, client, transports, query>>

\* The sleeps of the invocations that are waiting return.
PairWake ==
    /\ \E c \in Calls : call[c].pc \in {"sleep_try", "sleep_except"}
    /\ call' = [c \in Calls |->
                  IF call[c].pc \notin {"sleep_try", "sleep_except"} THEN call[c]
                  ELSE IF call[c].mode = "execute" THEN NextIteration(call[c])
                  ELSE [call[c] EXCEPT !.pc = "while", !.attempt = @ + 1]]
    /\ UNCHANGED <<config, handler, client, transports, query>>

NextPair == PairRequest \/ PairAttempt \/ PairWake

SpecPair == InitPair /\ [][NextPair]_vars

\* ------------------------------------------------------------------------
\* Vocabulary of the properties
\* ------------------------------------------------------------------------

\* The invocation has given its caller a response or an exception.
Done(c) == call[c].pc = "done"

\* The outcome is a response / an exception.
IsResponse(o) == ~IsNone(o.response)

IsException(o) == ~IsNone(o.exception)

\* The outcome is a retryable failure under cfg: a response whose status is in
\* retry_status_codes, or a connect failure or read timeout of the transport.
RetryableFailure(cfg, o) ==
    \/ IsResponse(o) /\ Get(o.response).status_code \in cfg.retry_status_codes
    \/ IsException(o) /\ Get(o.exception).type \in {"ConnectError", "ReadTimeout"}

\* The outcome is a successful response: status in [200, 400).
Success(o) ==
    IsResponse(o) /\ Get(o.response).status_code >= 200 /\ Get(o.response).status_code < 400

\* The outcome is an exception that is neither a connect failure nor a read timeout.
OtherException(o) ==
    IsException(o) /\ Get(o.exception).type \notin {"ConnectError", "ReadTimeout"}

\* The invocations of RetryHandler.execute / of either executor.
Blocking == { c \in Calls : call[c].mode = "execute" }

Executors == { c \in Calls : call[c].mode \in {"execute", "execute_async"} }

\* The attempt function of c has been called at least once.
Attempted(c) == ~IsNone(call[c].last_outcome)

LastOutcome(c) == Get(call[c].last_outcome)

\* ------------------------------------------------------------------------
\* C1
\* ------------------------------------------------------------------------

\* C1: with max_retries = n >= 0, one invocation of execute or execute_async
\* calls the attempt function at most n+1 times, whatever the outcomes are.
C1_AtMostNPlusOneCalls ==
    \A c \in Executors :
        handler.config.max_retries >= 0
            => call[c].ncalls <= handler.config.max_retries + 1

\* An execute_async invocation that used its whole budget of two retries.
C1_Witness ==
    \E c \in Executors :
        /\ call[c].mode = "execute_async"
        /\ Done(c)
        /\ handler.config.max_retries >= 2
        /\ call[c].ncalls = handler.config.max_retries + 1

\* ------------------------------------------------------------------------
\* C2
\* ------------------------------------------------------------------------

\* C2: when every attempt yields a retryable failure, execute with
\* max_retries = n >= 0 has called the attempt function exactly n+1 times when
\* it finishes. (An invocation that finished on a retryable failure.)
C2_ExactlyNPlusOneCalls ==
    \A c \in Blocking :
        ( /\ Done(c)
          /\ handler.config.max_retries >= 0
          /\ Attempted(c)
          /\ RetryableFailure(handler.config, LastOutcome(c)) )
            => call[c].ncalls = handler.config.max_retries + 1

\* ------------------------------------------------------------------------
\* C3
\* ------------------------------------------------------------------------

\* C3: after k <= max_retries retryable failures and then a successful response,
\* execute returns that response after exactly k+1 calls: a retryable failure
\* with budget left never ends the invocation, and a successful response (one
\* the configuration does not ask to retry) ends it at once with that response
\* as the result.
C3_ReturnsFirstSuccess ==
    \A c \in Blocking :
        Attempted(c) =>
            /\ ( /\ RetryableFailure(handler.config, LastOutcome(c))
                 /\ call[c].ncalls <= handler.config.max_retries )
                   => ~Done(c)
            /\ ( /\ Success(LastOutcome(c))
                 /\ ~RetryableFailure(handler.config, LastOutcome(c)) )
                   => /\ Done(c)
                      /\ call[c].result = Result("return", LastOutcome(c).response, None)

\* ------------------------------------------------------------------------
\* C4
\* ------------------------------------------------------------------------

\* The last attempt of c gave a response with status >= 400 that is final: the
\* budget is used up or the status is not in retry_status_codes.
FinalFailingResponse(c) ==
    /\ Attempted(c)
    /\ IsResponse(LastOutcome(c))
    /\ Get(LastOutcome(c).response).status_code >= 400
    /\ \/ call[c].ncalls >= handler.config.max_retries + 1
       \/ Get(LastOutcome(c).response).status_code \notin handler.config.retry_status_codes

\* C4, as the specification states it: execute never returns a response with status >= 400 as its
\* result (it raises the error mapped from it instead).
C4_NeverReturnsFailingResponse ==
    \A c \in Blocking :
        ( Done(c) /\ call[c].result.kind = "return" )
            => Get(call[c].result.response).status_code < 400

\* C4, as the code has it: when the last attempt gave a final response with status
\* >= 400, execute returns that very response and raises nothing.
C4_ReturnsFinalFailingResponse ==
    \A c \in Blocking :
        ( handler.config.max_retries >= 0 /\ FinalFailingResponse(c) )
            => /\ Done(c)
               /\ call[c].result = Result("return", LastOutcome(c).response, None)

\* execute returned a 500 response after using up a budget of at least one retry.
C4_Witness ==
    \E c \in Blocking :
        /\ Done(c)
        /\ FinalFailingResponse(c)
        /\ Get(call[c].result.response).status_code = 500
        /\ handler.config.max_retries >= 1
        /\ call[c].ncalls = handler.config.max_retries + 1

\* ------------------------------------------------------------------------
\* C5
\* ------------------------------------------------------------------------

\* C5: when every attempt returns a response with a retryable status, execute
\* with max_retries = n returns the response of the n+1-th attempt and raises
\* nothing. (An invocation that finished on a response with a retryable status.)
C5_ReturnsLastRetryableResponse ==
    \A c \in Blocking :
        ( /\ Done(c)
          /\ handler.config.max_retries >= 0
          /\ Attempted(c)
          /\ IsResponse(LastOutcome(c))
          /\ RetryableFailure(handler.config, LastOutcome(c)) )
            => /\ call[c].ncalls = handler.config.max_retries + 1
               /\ call[c].result = Result("return", LastOutcome(c).response, None)

\* ------------------------------------------------------------------------
\* C6
\* ------------------------------------------------------------------------

\* C6: what execute surfaces is the outcome of its last call of the attempt
\* function: a returned response is the one the last call returned, a raised
\* exception is the one the last call raised.
C6_SurfacesLastOutcome ==
    \A c \in Blocking :
        ( Done(c) /\ handler.config.max_retries >= 0 )
            => /\ Attempted(c)
               /\ call[c].result.kind = "return"
                    => call[c].result.response = LastOutcome(c).response
               /\ call[c].result.kind = "raise"
                    => call[c].result.exception = LastOutcome(c).exception

\* ------------------------------------------------------------------------
\* C7
\* ------------------------------------------------------------------------

\* C7: an exception from the attempt function that is neither a connect failure
\* nor a read timeout ends execute at once: the invocation is over with an
\* error raised, no wait follows that attempt (every wait lies between two
\* attempts), and the attempt function is not called again.
C7_OtherExceptionEndsAtOnce ==
    \A c \in Blocking :
        ( Attempted(c) /\ OtherException(LastOutcome(c)) )
            => /\ Done(c)
               /\ call[c].result.kind = "raise"
               /\ call[c].nwaits = call[c].ncalls - 1
               /\ call[c].attempt = 0 => call[c].ncalls = 1

\* Such an exception on the second attempt, after one wait.
C7_Witness ==
    \E c \in Blocking :
        /\ Attempted(c) /\ OtherException(LastOutcome(c))
        /\ Done(c)
        /\ call[c].ncalls = 2
        /\ call[c].nwaits = 1

\* ------------------------------------------------------------------------
\* C8
\* ------------------------------------------------------------------------

\* The invocations of execute and of Client.request.
BlockingOrRequest == { c \in Calls : call[c].mode \in {"execute", "request"} }

\* The transport (the attempt function of execute) raised, on its last call,
\* an exception that is neither a connect failure nor a read timeout.
SentOtherException(c) ==
    ~IsNone(call[c].last_sent) /\ OtherException(Get(call[c].last_sent))

\* C8, as the specification states it: such an exception reaches the caller of execute and of
\* Client.request as a ClientError whose cause is the original exception.
C8_OtherExceptionAsClientError ==
    \A c \in BlockingOrRequest :
        ( Done(c) /\ SentOtherException(c) )
            => /\ call[c].result.kind = "raise"
               /\ IsInstance(Get(call[c].result.exception), "ClientError")
               /\ Get(call[c].result.exception).cause
                      = Get(Get(call[c].last_sent).exception).type

\* C8, as the code has it: such an exception reaches the caller of execute and of
\* Client.request as it was raised, the same exception and not a ClientError.
C8_OtherExceptionUnchanged ==
    \A c \in BlockingOrRequest :
        SentOtherException(c)
            => /\ Done(c)
               /\ call[c].result = Result("raise", None, Get(call[c].last_sent).exception)
               /\ ~IsInstance(Get(call[c].result.exception), "ClientError")

\* A Client.request with a retry handler whose second send raised a ValueError.
C8_Witness ==
    \E c \in BlockingOrRequest :
        /\ call[c].mode = "request"
        /\ SentOtherException(c)
        /\ Done(c)
        /\ call[c].ncalls = 2
        /\ Get(call[c].result.exception).type = "ValueError"

\* ------------------------------------------------------------------------
\* C9
\* ------------------------------------------------------------------------

\* C9: should_retry(attempt, ...) is False whenever attempt >= max_retries, for
\* every response and every exception, and so it is False at every later
\* attempt index as well.
C9_NoRetryOnceBudgetSpent ==
    ( query.fn = "should_retry" /\ query.attempt >= config.max_retries )
        => /\ query.retry = FALSE
           /\ \A a \in query.attempt..MaxAttemptIndex :
                 ~should_retry(config, a, query.response, query.exception)

\* should_retry asked past the budget about a response with a retryable status.
C9_Witness ==
    /\ query.fn = "should_retry"
    /\ config.max_retries >= 1
    /\ query.attempt > config.max_retries
    /\ IsNone(query.exception)
    /\ ~IsNone(query.response)
    /\ Get(query.response).status_code \in config.retry_status_codes
    /\ query.retry = FALSE

\* ------------------------------------------------------------------------
\* C10
\* ------------------------------------------------------------------------

\* C10: for attempt < max_retries, should_retry is True for a ConnectError or a
\* ReadTimeout and False for any other exception, whatever response is passed
\* with it; without an exception it is, for a response with an error status,
\* True exactly when the status is in retry_status_codes; with neither it is
\* False.
C10_RetryTable ==
    ( query.fn = "should_retry" /\ query.attempt < config.max_retries )
        => IF ~IsNone(query.exception)
           THEN query.retry = (Get(query.exception).type \in {"ConnectError", "ReadTimeout"})
           ELSE IF ~IsNone(query.response)
           THEN Get(query.response).status_code >= 400
                    => query.retry =
                         (Get(query.response).status_code \in config.retry_status_codes)
           ELSE query.retry = FALSE

\* should_retry asked, with budget left, about a non-retryable exception
\* passed together with a response whose status is retryable.
C10_Witness ==
    /\ query.fn = "should_retry"
    /\ query.attempt < config.max_retries
    /\ ~IsNone(query.exception)
    /\ Get(query.exception).type = "ValueError"
    /\ ~IsNone(query.response)
    /\ Get(query.response).status_code \in config.retry_status_codes
    /\ query.retry = FALSE

\* ------------------------------------------------------------------------
\* C11
\* ------------------------------------------------------------------------

\* C11: a successful response is never retried: whatever retry_status_codes the
\* configuration holds and whatever the attempt index, should_retry is False
\* for a response with status in [200, 400) passed without an exception.
C11_SuccessNeverRetried ==
    ( /\ query.fn = "should_retry"
      /\ IsNone(query.exception)
      /\ ~IsNone(query.response)
      /\ Get(query.response).status_code >= 200
      /\ Get(query.response).status_code < 400 )
        => query.retry = FALSE

\* ------------------------------------------------------------------------
\* C12
\* ------------------------------------------------------------------------

\* The configuration is what RetryConfig(...) builds when retry_status_codes
\* is passed as codes (None when the argument is left out).
BuiltWith(codes) ==
    config = RetryConfig(config.max_retries, codes, config.backoff_factor,
                         config.max_backoff, config.jitter)

\* C12: the configuration honours the retry_status_codes it was built with:
\* for every set S passed, the empty set included, and attempt < max_retries,
\* should_retry on a response with an error status is True exactly when the
\* status is in S; S is the default set only when no set was passed.
C12_HonoursPassedSet ==
    \A codes \in RetryStatusCodeArgs :
        ( /\ BuiltWith(codes)
          /\ query.fn = "should_retry"
          /\ query.attempt < config.max_retries
          /\ IsNone(query.exception)
          /\ ~IsNone(query.response)
          /\ Get(query.response).status_code >= 400 )
            => query.retry =
                 ( Get(query.response).status_code
                     \in (IF IsNone(codes) THEN DefaultRetryStatusCodes ELSE Get(codes)) )

\* ------------------------------------------------------------------------
\* C13
\* ------------------------------------------------------------------------

\* C13: with max_retries = 0 execute calls the attempt function exactly once
\* and never waits, whatever that call gives: the invocation is over as soon
\* as the function has been called.
C13_SingleAttemptNoWait ==
    \A c \in Blocking :
        handler.config.max_retries = 0
            => /\ call[c].ncalls <= 1
               /\ call[c].nwaits = 0
               /\ Attempted(c) => Done(c)
               /\ Done(c) => call[c].ncalls = 1

\* execute under max_retries = 0 ended after one call that gave a retryable
\* failure: a 429 response or a connect failure.
C13_Witness ==
    \E c \in Blocking :
        /\ handler.config.max_retries = 0
        /\ Done(c)
        /\ call[c].ncalls = 1
        /\ call[c].nwaits = 0
        /\ RetryableFailure(handler.config, LastOutcome(c))
        /\ \/ call[c].result.kind = "return"
              /\ Get(call[c].result.response).status_code = 429
           \/ call[c].result.kind = "raise"
              /\ Get(call[c].result.exception).type = "ConnectError"

\* ------------------------------------------------------------------------
\* C14
\* ------------------------------------------------------------------------

\* C14: with jitter off and no retry_after, get_backoff_time(attempt) is exactly
\* min(max_backoff, backoff_factor * 2^attempt); it is never above max_backoff
\* and no earlier attempt index has a longer backoff.
C14_ExponentialClamped ==
    ( /\ query.fn = "get_backoff_time"
      /\ ~config.jitter
      /\ IsNone(query.retry_after) )
        => /\ query.backoff
                = Min(config.max_backoff, config.backoff_factor * Pow2(query.attempt))
           /\ query.backoff <= config.max_backoff
           /\ \A a \in 0..query.attempt :
                 get_backoff_time(config, a, None, 0) <= query.backoff

\* get_backoff_time asked, with jitter off, at an attempt index where the
\* exponential has passed max_backoff: the answer is max_backoff.
C14_Witness ==
    /\ query.fn = "get_backoff_time"
    /\ ~config.jitter
    /\ IsNone(query.retry_after)
    /\ query.attempt >= 2
    /\ config.backoff_factor * Pow2(query.attempt) > config.max_backoff
    /\ query.backoff = config.max_backoff
    /\ get_backoff_time(config, 0, None, 0) < query.backoff

\* ------------------------------------------------------------------------
\* C15
\* ------------------------------------------------------------------------

\* C15: when a retry_after value v is passed, get_backoff_time(attempt, v) is
\* min(v, max_backoff) whatever the attempt index, the backoff factor, the
\* jitter setting and the random draw are: the computed backoff is not used
\* and the value is not jittered.
C15_RetryAfterClamped ==
    ( /\ query.fn = "get_backoff_time"
      /\ ~IsNone(query.retry_after) )
        => /\ query.backoff = Min(Seconds(Get(query.retry_after)), config.max_backoff)
           /\ \A a \in 0..MaxAttemptIndex, r \in RandomValues :
                 get_backoff_time(config, a, query.retry_after, r) = query.backoff

\* get_backoff_time asked under a jittering configuration, at a later attempt
\* index, with a retry_after above max_backoff: the answer is max_backoff.
C15_Witness ==
    /\ query.fn = "get_backoff_time"
    /\ config.jitter
    /\ query.random > 0
    /\ query.attempt >= 1
    /\ ~IsNone(query.retry_after)
    /\ Seconds(Get(query.retry_after)) > config.max_backoff
    /\ query.backoff = config.max_backoff

\* ------------------------------------------------------------------------
\* C16
\* ------------------------------------------------------------------------

\* The response execute is waiting to retry carries a Retry-After header that
\* holds a number of seconds (decimal digits).
WaitsOnRetryAfter(c) ==
    /\ call[c].pc = "sleep_try"
    /\ Truthy(HeadersGet(Get(call[c].response), "Retry-After"))
    /\ AllDigits(Get(HeadersGet(Get(call[c].response), "Retry-After")))

\* C16: whenever execute retries a response that carries a Retry-After header
\* holding a number of seconds, the wait before the next attempt is
\* min(header value, max_backoff), whatever the retryable status is.
C16_WaitIsRetryAfter ==
    \A c \in Blocking :
        WaitsOnRetryAfter(c)
            => call[c].wait =
                 Some(Min(Seconds(IntValue(Get(HeadersGet(Get(call[c].response),
                                                           "Retry-After")))),
                          handler.config.max_backoff))

\* ------------------------------------------------------------------------
\* C17
\* ------------------------------------------------------------------------

\* C17: with jitter on and no retry_after, get_backoff_time(attempt) lies in
\* [0.5*b, 1.5*b] for b = min(max_backoff, backoff_factor * 2^attempt), the
\* backoff clamped before it is jittered; it is never above 1.5*max_backoff.
C17_JitterAroundClamped ==
    ( /\ query.fn = "get_backoff_time"
      /\ config.jitter
      /\ IsNone(query.retry_after) )
        => LET b == Min(config.max_backoff, config.backoff_factor * Pow2(query.attempt))
           IN  /\ 2 * query.backoff >= b
               /\ 2 * query.backoff <= 3 * b
               /\ 2 * query.backoff <= 3 * config.max_backoff

\* get_backoff_time asked, with jitter on, at an attempt index where the
\* exponential has passed max_backoff: the jittered answer is above max_backoff.
C17_Witness ==
    /\ query.fn = "get_backoff_time"
    /\ config.jitter
    /\ IsNone(query.retry_after)
    /\ config.backoff_factor * Pow2(query.attempt) > config.max_backoff
    /\ query.backoff > config.max_backoff

\* ------------------------------------------------------------------------
\* C18
\* ------------------------------------------------------------------------

\* The invocations of Client.request.
Requests == { c \in Calls : call[c].mode = "request" }

\* The last send of the transport failed with a connect failure or a read timeout.
SentTransportFailure(c) ==
    /\ ~IsNone(call[c].last_sent)
    /\ IsException(Get(call[c].last_sent))
    /\ Get(Get(call[c].last_sent).exception).type \in {"ConnectError", "ReadTimeout"}

\* C18: a Client with RetryConfig(max_retries = n >= 1) retries transport
\* failures while budget remains: a connect failure or read timeout on one of
\* the first n sends does not end Client.request (another send follows), and a
\* successful response ends it with that response as the result.
C18_ClientRetriesTransportFailures ==
    \A c \in Requests :
        ( /\ ~IsNone(client.retry_handler)
          /\ Get(client.retry_handler).config.max_retries >= 1 )
            => /\ ( /\ SentTransportFailure(c)
                    /\ call[c].ncalls <= Get(client.retry_handler).config.max_retries )
                      => ~Done(c)
               /\ ( /\ Attempted(c)
                    /\ Success(LastOutcome(c))
                    /\ ~RetryableFailure(Get(client.retry_handler).config, LastOutcome(c)) )
                      => /\ Done(c)
                         /\ call[c].result = Result("return", LastOutcome(c).response, None)

\* ------------------------------------------------------------------------
\* C19
\* ------------------------------------------------------------------------

\* The requests of a Client with a retry handler (budget >= 0) and
\* raise_for_status_enabled = True.
CheckedRetryingRequests ==
    { c \in Requests : /\ ~IsNone(client.retry_handler)
                       /\ Get(client.retry_handler).config.max_retries >= 0
                       /\ client.raise_for_status_enabled }

\* The last send of c returned a response with status >= 400 that is final:
\* the budget is used up or the status is not in retry_status_codes.
FinalErrorResponse(c) ==
    /\ Attempted(c)
    /\ IsResponse(LastOutcome(c))
    /\ Get(LastOutcome(c).response).status_code >= 400
    /\ \/ call[c].ncalls >= Get(client.retry_handler).config.max_retries + 1
       \/ Get(LastOutcome(c).response).status_code
              \notin Get(client.retry_handler).config.retry_status_codes

\* C19: in a Client with retry configured and raise_for_status_enabled = True
\* the status check is applied to the final response only: a retryable error
\* status with budget left raises nothing and does not end the request, a
\* successful response is returned as the result, and for a final response
\* with status >= 400 the error raised is the HTTP error mapped from that
\* response.
C19_StatusCheckOnFinalResponseOnly ==
    \A c \in CheckedRetryingRequests :
        Attempted(c) =>
            /\ ( /\ IsResponse(LastOutcome(c))
                 /\ Get(LastOutcome(c).response).status_code >= 400
                 /\ ~FinalErrorResponse(c) )
                   => ~Done(c)
            /\ ( /\ Success(LastOutcome(c))
                 /\ ~RetryableFailure(Get(client.retry_handler).config, LastOutcome(c)) )
                   => /\ Done(c)
                      /\ call[c].result = Result("return", LastOutcome(c).response, None)
            /\ FinalErrorResponse(c)
                   => /\ Done(c)
                      /\ call[c].result.kind = "raise"
                      /\ IsInstance(Get(call[c].result.exception), "HTTPError")
                      /\ Get(call[c].result.exception).response = LastOutcome(c).response

\* ------------------------------------------------------------------------
\* C20
\* ------------------------------------------------------------------------

\* The last send of c returned the final response of the request: there is no
\* retry handler, or the budget is used up, or the status is not in
\* retry_status_codes.
FinalResponse(c) ==
    /\ Attempted(c)
    /\ IsResponse(LastOutcome(c))
    /\ \/ IsNone(client.retry_handler)
       \/ call[c].ncalls >= Get(client.retry_handler).config.max_retries + 1
       \/ Get(LastOutcome(c).response).status_code
              \notin Get(client.retry_handler).config.retry_status_codes

\* C20, raise_for_status_enabled = False: Client.request returns the final
\* response whatever its status and raises no HTTP error.
C20_Disabled(c) ==
    /\ ( Done(c) /\ call[c].result.kind = "raise" )
           => ~IsInstance(Get(call[c].result.exception), "HTTPError")
    /\ FinalResponse(c)
           => /\ Done(c)
              /\ call[c].result = Result("return", LastOutcome(c).response, None)

\* C20, raise_for_status_enabled = True: Client.request returns only responses
\* with status < 400 and raises a typed HTTP error for every final response
\* with status >= 400.
C20_Enabled(c) ==
    /\ ( Done(c) /\ call[c].result.kind = "return" )
           => Get(call[c].result.response).status_code < 400
    /\ ( FinalResponse(c) /\ Get(LastOutcome(c).response).status_code >= 400 )
           => /\ Done(c)
              /\ call[c].result.kind = "raise"
              /\ IsInstance(Get(call[c].result.exception), "HTTPError")

\* C20: Client.request with raise_for_status_enabled = False returns the final
\* response whatever its status and raises no HTTP error; with True it returns
\* only responses with status < 400 and raises a typed HTTP error for every
\* final response with status >= 400.
C20_StatusCheckSwitch ==
    \A c \in Requests :
        IF client.raise_for_status_enabled THEN C20_Enabled(c) ELSE C20_Disabled(c)

\* ------------------------------------------------------------------------
\* C21
\* ------------------------------------------------------------------------

\* The library's error class for a transport failure class.
WrapperOf(type) ==
    IF type = "ConnectError" THEN "ClientConnectionError" ELSE "ClientTimeoutError"

\* C21: Client.request surfaces a connect failure of the transport as the
\* library's ConnectionError and a read timeout as the library's TimeoutError,
\* with the message of the transport exception and that exception as its cause.
C21_TransportFailureWrapped ==
    \A c \in Requests :
        SentTransportFailure(c)
            => LET e == Get(Get(call[c].last_sent).exception)
               IN  /\ Done(c)
                   /\ call[c].result.kind = "raise"
                   /\ Get(call[c].result.exception).type = WrapperOf(e.type)
                   /\ Get(call[c].result.exception).message = e.message
                   /\ Get(call[c].result.exception).cause = e.type

\* A Client.request with a retry handler whose second send, after a retried
\* response, hit a read timeout: it raised the library's TimeoutError.
C21_Witness ==
    \E c \in Requests :
        /\ ~IsNone(client.retry_handler)
        /\ SentTransportFailure(c)
        /\ call[c].ncalls = 2
        /\ Done(c)
        /\ Get(call[c].result.exception).type = "ClientTimeoutError"
        /\ Get(call[c].result.exception).cause = "ReadTimeout"

\* ------------------------------------------------------------------------
\* C22
\* ------------------------------------------------------------------------

\* The error class the first matching rule gives a status >= 400.
ErrorClassOf(status) ==
    IF status \in {401, 403} THEN "AuthenticationError"
    ELSE IF status = 429 THEN "RateLimitError"
    ELSE "HTTPError"

\* C22: raise_for_status is total over the statuses: it raises nothing for a
\* response with status < 400, and for a status >= 400 it raises
\* AuthenticationError (401, 403), RateLimitError (429) or HTTPError (the
\* rest), whose status_code is the status and whose response is the response.
C22_RaiseForStatusTotal ==
    query.fn = "raise_for_status"
        => LET response == Get(query.response)
           IN  IF response.status_code < 400
               THEN IsNone(query.raised)
               ELSE /\ ~IsNone(query.raised)
                    /\ Get(query.raised).type = ErrorClassOf(response.status_code)
                    /\ Get(query.raised).status_code = Some(response.status_code)
                    /\ Get(query.raised).response = Some(response)

\* ------------------------------------------------------------------------
\* C23
\* ------------------------------------------------------------------------

\* raise_for_status was asked about a response with 500 <= status < 600.
AskedAboutServerStatus ==
    /\ query.fn = "raise_for_status"
    /\ Get(query.response).status_code >= 500
    /\ Get(query.response).status_code < 600

\* C23, as the specification states it: raise_for_status surfaces a response
\* with 500 <= status < 600 as a dedicated server error, a class other than
\* the generic HTTPError.
C23_ServerErrorKind ==
    AskedAboutServerStatus
        => /\ ~IsNone(query.raised)
           /\ Get(query.raised).type = "ServerError"

\* C23, as the code has it: raise_for_status surfaces a response with
\* 500 <= status < 600 as the generic HTTPError, the class it uses for a 404,
\* carrying the status and the response.
C23_ServerStatusIsHTTPError ==
    AskedAboutServerStatus
        => /\ ~IsNone(query.raised)
           /\ Get(query.raised).type = "HTTPError"
           /\ Get(query.raised).type = ErrorClassOf(404)
           /\ Get(query.raised).status_code = Some(Get(query.response).status_code)
           /\ Get(query.raised).response = query.response

\* raise_for_status asked about a 503 response: it raised an HTTPError.
C23_Witness ==
    /\ AskedAboutServerStatus
    /\ Get(query.response).status_code = 503
    /\ ~IsNone(query.raised)
    /\ Get(query.raised).type = "HTTPError"

\* ------------------------------------------------------------------------
\* C24
\* ------------------------------------------------------------------------

\* C24: for every 429 response raise_for_status raises RateLimitError, whose
\* retry_after is the integer value of the Retry-After header when the header
\* is present and an integer, and None when it is absent or unparseable; an
\* unparseable header never makes it raise another exception.
C24_RateLimitErrorAlways ==
    ( /\ query.fn = "raise_for_status"
      /\ Get(query.response).status_code = 429 )
        => LET header == HeadersGet(Get(query.response), "Retry-After")
           IN  /\ ~IsNone(query.raised)
               /\ Get(query.raised).type = "RateLimitError"
               /\ Get(query.raised).retry_after =
                    IF Truthy(header) /\ IntParses(Get(header))
                    THEN Some(IntValue(Get(header)))
                    ELSE None

\* ------------------------------------------------------------------------
\* C25
\* ------------------------------------------------------------------------

\* The execute_async invocation c is suspended in a backoff wait.
Suspended(c) ==
    /\ call[c].mode = "execute_async"
    /\ call[c].pc \in {"sleep_try", "sleep_except"}

\* C25: when the task running execute_async is cancelled while the handler is
\* suspended in a backoff wait (a step out of the wait other than the wake-up),
\* the invocation ends there: the CancelledError goes to the caller as it is,
\* the attempt function is not called, the cancellation is not stored as a
\* failed attempt, and a finished invocation takes no further step.
C25_CancellationPropagates ==
    [][ \A c \in Calls :
          /\ ( Suspended(c) /\ call'[c].pc # "for" )
                => call'[c] =
                     [call[c] EXCEPT
                        !.pc = "done",
                        !.result = Result("raise", None,
                                          Some(PlainException("CancelledError", "", "None")))]
          /\ Done(c) => call'[c] = call[c] ]_vars

\* An execute_async invocation cancelled in the wait after its second attempt,
\* which had returned a retryable response.
C25_Witness ==
    \E c \in Executors :
        /\ call[c].mode = "execute_async"
        /\ Done(c)
        /\ call[c].result.kind = "raise"
        /\ Get(call[c].result.exception).type = "CancelledError"
        /\ call[c].ncalls = 2
        /\ call[c].nwaits = 2
        /\ IsResponse(LastOutcome(c))
        /\ IsNone(call[c].last_exception)

\* ------------------------------------------------------------------------
\* C26
\* ------------------------------------------------------------------------

\* What ends invocation c comes from c itself: a returned response is the one
\* its own last attempt returned; a raised exception is the one its own last
\* attempt raised, the failure of its own wait, its own cancellation or, when
\* it made no attempt, the RuntimeError of the code after the loop.
OwnResult(c) ==
    /\ call[c].result.kind = "return"
          => Attempted(c) /\ call[c].result.response = LastOutcome(c).response
    /\ call[c].result.kind = "raise"
          => \/ Attempted(c) /\ call[c].result.exception = LastOutcome(c).exception
             \/ Attempted(c) /\ call[c].result.exception = Some(SleepError)
             \/ Get(call[c].result.exception).type = "CancelledError"
             \/ ~Attempted(c) /\ Get(call[c].result.exception).type = "RuntimeError"

\* Invocation c has its whole budget: it makes at most max_retries + 1
\* attempts, and after a retryable failure with retries left it goes on,
\* unless its own wait failed or it was cancelled.
OwnBudget(c) ==
    /\ call[c].ncalls <= handler.config.max_retries + 1
    /\ ( /\ Done(c)
         /\ Attempted(c)
         /\ RetryableFailure(handler.config, LastOutcome(c))
         /\ call[c].ncalls <= handler.config.max_retries )
           => /\ call[c].result.kind = "raise"
              /\ \/ call[c].result.exception = Some(SleepError)
                 \/ Get(call[c].result.exception).type = "CancelledError"

\* C26: concurrent invocations of execute / execute_async on one shared
\* RetryHandler have independent budgets: under every interleaving each
\* invocation makes at most max_retries + 1 attempts of its own, keeps its own
\* retries whatever the others have done, and ends on its own outcomes; a step
\* of one invocation changes neither another invocation nor the shared handler
\* and configuration.
C26_IndependentBudgets ==
    /\ [](\A c \in Calls : OwnBudget(c) /\ OwnResult(c))
    /\ [][ /\ \A c, d \in Calls :
                ( c # d /\ call'[c] # call[c] ) => call'[d] = call[d]
           /\ handler' = handler
           /\ config' = config ]_vars

\* Two invocations under a budget of one retry that both used it and ended
\* differently: one returned a successful response, the other raised the
\* connect failure of its second attempt.
C26_Witness ==
    /\ handler.config.max_retries = 1
    /\ \A c \in Calls : Done(c) /\ call[c].ncalls = 2
    /\ call[1].result.kind = "return"
    /\ Get(call[1].result.response).status_code = 200
    /\ call[2].result.kind = "raise"
    /\ Get(call[2].result.exception).type = "ConnectError"

\* ------------------------------------------------------------------------
\* C27
\* ------------------------------------------------------------------------

\* The invocations of RetryHandler.execute_async.
Cooperative == { c \in Calls : call[c].mode = "execute_async" }

\* Invocation c has handled the outcome of its last attempt: it has ended or
\* it is in the wait that follows the attempt; it was not cancelled.
Decided(c) ==
    /\ Attempted(c)
    /\ call[c].pc \in {"sleep_try", "sleep_except", "done"}
    /\ call[c].result.kind = "raise"
          => Get(call[c].result.exception).type # "CancelledError"

\* C27: the blocking and the cooperative executor decide alike: under the same
\* RetryConfig (jitter off), at the same attempt index and for the same outcome
\* of that attempt, a response carrying any Retry-After value included, both
\* request the same wait or both finish, the same way (same returned response
\* or same raised exception), after the same number of attempts.
C27_SameDecisions ==
    \A c \in Blocking, d \in Cooperative :
        ( /\ Decided(c) /\ Decided(d)
          /\ call[c].ncalls = call[d].ncalls
          /\ call[c].last_outcome = call[d].last_outcome )
            => /\ call[c].pc = call[d].pc
               /\ call[c].result = call[d].result
               /\ call[c].pc # "done" => call[c].wait = call[d].wait

\* ------------------------------------------------------------------------
\* C28
\* ------------------------------------------------------------------------

\* The transport handles that are open.
OpenHandles(tr) == { i \in DOMAIN tr : tr[i] = "open" }

\* The client holds at most one open handle, the one _client refers to, and
\* none when _client is None.
OneHandle ==
    IF IsNone(client._client)
    THEN OpenHandles(transports) = {}
    ELSE OpenHandles(transports) = { Get(client._client) }

\* C28: a Client holds no transport handle until its first request creates
\* one, and at most one at a time; close() and leaving the `with` block,
\* normally or through an exception, release the handle and leave _client
\* None; __exit__ does not suppress the exception of the body; close() on a
\* client without a handle changes nothing.
C28_HandleLifecycle ==
    /\ [](/\ OneHandle
          /\ Len(transports) = 0 => IsNone(client._client)
          /\ IsNone(close(client, transports).client._client)
          /\ OpenHandles(close(client, transports).transports) = {}
          /\ IsNone(client._client)
                => close(client, transports) = [client |-> client, transports |-> transports]
          /\ \A c \in Calls :
                ( Done(c) /\ ~IsNone(call[c].last_exception) )
                    => call[c].result = Result("raise", None, call[c].last_exception))
    /\ [][ /\ Len(transports') > Len(transports) => IsNone(client._client)
           /\ \A c \in Calls :
                /\ ( call[c].pc = "idle" /\ call'[c].pc = "body" )
                      => client' = client /\ transports' = transports
                /\ ( call[c].pc = "body" /\ call'[c].pc = "done" )
                      => /\ IsNone(client'._client)
                         /\ OpenHandles(transports') = {} ]_vars

\* A `with` block left through an exception after its client had created a
\* second handle: no handle is open, _client is None, the exception went on.
C28_Witness ==
    \E c \in Calls :
        /\ call[c].mode = "with"
        /\ Done(c)
        /\ call[c].result.kind = "raise"
        /\ Len(transports) = 2
        /\ OpenHandles(transports) = {}
        /\ IsNone(client._client)

\* ------------------------------------------------------------------------
\* C29
\* ------------------------------------------------------------------------

\* The invocations of the gemini Client._request / AsyncClient._request.
GeminiRequests == { c \in Calls : call[c].mode \in {"gemini", "gemini_async"} }

\* The last request of c failed: it raised, or its response is not a success.
GeminiFailed(c) ==
    /\ Attempted(c)
    /\ IsResponse(LastOutcome(c)) => ~is_success(Get(LastOutcome(c).response))

\* That failure is final: an unexpected exception, a status outside
\* retry_codes, or max_attempts retries used up.
GeminiFinalFailure(c) ==
    /\ GeminiFailed(c)
    /\ \/ OtherException(LastOutcome(c))
       \/ /\ IsResponse(LastOutcome(c))
          /\ Get(LastOutcome(c).response).status_code \notin client.config.retry.retry_codes
       \/ call[c].ncalls >= client.config.retry.max_attempts + 1

\* The error class the mapping order gives a failure.
GeminiErrorClassOf(o) ==
    IF IsException(o)
    THEN IF Get(o.exception).type = "ReadTimeout" THEN "GeminiTimeoutError"
         ELSE IF Get(o.exception).type = "ConnectError" THEN "GeminiConnectionError"
         ELSE "GeminiClientError"
    ELSE LET status == Get(o.response).status_code
         IN  IF status \in {401, 403} THEN "GeminiAuthenticationError"
             ELSE IF status = 429 THEN "GeminiRateLimitError"
             ELSE IF status >= 500 /\ status <= 599 THEN "GeminiServerError"
             ELSE "GeminiHTTPError"

GeminiWaitsOnRetryAfter(c) ==
    /\ call[c].pc = "sleep_except"
    /\ IsResponse(LastOutcome(c))
    /\ Truthy(HeadersGet(Get(LastOutcome(c).response), "Retry-After"))
    /\ FloatParses(Get(HeadersGet(Get(LastOutcome(c).response), "Retry-After")))

\* C30: in the gemini client, when a retried response carries a numeric
\* Retry-After value v, the wait _calculate_backoff gives is min(v, max_delay).
C30_GeminiRetryAfterClamped ==
    \A c \in GeminiRequests :
        GeminiWaitsOnRetryAfter(c)
            => call[c].wait =
                 Some(Min(FloatEighths(Get(HeadersGet(Get(LastOutcome(c).response),
                                                      "Retry-After"))),
                          client.config.retry.max_delay))

\* ------------------------------------------------------------------------
\* C31
\* ------------------------------------------------------------------------

\* The Retry-After values a wait of c may have been computed from: none, or
\* the integer the header of the response just retried holds.
RetryAfterOf(c) ==
    {None} \cup
    { Some(IntValue(Get(h))) :
        h \in { x \in { HeadersGet(Get(o.response), "Retry-After") :
                          o \in { y \in {LastOutcome(c)} : IsResponse(y) } } :
                  Truthy(x) /\ IntParses(Get(x)) } }

\* The wait c is in follows the attempt with index call[c].attempt and lasts
\* get_backoff_time(attempt, ...): with jitter off and no Retry-After header
\* on the outcome, min(max_backoff, backoff_factor * 2^attempt).
WaitIsBackoffTime(c) ==
    LET cfg == handler.config
        k == call[c].attempt
    IN  /\ \E ra \in RetryAfterOf(c), random \in RandomDraws(cfg) :
              call[c].wait = Some(get_backoff_time(cfg, k, ra, random))
        /\ ( ~cfg.jitter /\ RetryAfterOf(c) = {None} )
              => call[c].wait = Some(Min(cfg.max_backoff, cfg.backoff_factor * Pow2(k)))

\* Where c stands, its attempts and waits have alternated so far.
Alternated(c) ==
    CASE call[c].pc = "idle" -> call[c].ncalls = 0 /\ call[c].nwaits = 0
      [] call[c].pc = "for" -> /\ call[c].nwaits = call[c].ncalls
                               /\ call[c].attempt = call[c].ncalls
      [] call[c].pc \in {"sleep_try", "sleep_except"} ->
             /\ call[c].nwaits = call[c].ncalls
             /\ call[c].attempt = call[c].ncalls - 1
             /\ WaitIsBackoffTime(c)
      [] call[c].pc = "done" ->
             call[c].ncalls >= 1 => call[c].nwaits = call[c].ncalls - 1
      [] OTHER -> FALSE

\* C31: within one execute call attempts and waits strictly alternate: an
\* attempt is made only when every earlier attempt has been followed by a wait,
\* a wait is entered only right after an attempt, no wait precedes the first
\* attempt and none follows the last (waits = attempts - 1 at the end); the
\* wait after the attempt with index k lasts get_backoff_time(k, ...), which
\* with jitter off and no Retry-After is min(max_backoff, backoff_factor * 2^k).
C31_AttemptsAndWaitsAlternate ==
    /\ [](\A c \in Blocking : Alternated(c))
    /\ [][ \A c \in Blocking :
             /\ call'[c].ncalls \in {call[c].ncalls, call[c].ncalls + 1}
             /\ call'[c].nwaits \in {call[c].nwaits, call[c].nwaits + 1}
             /\ call'[c].ncalls > call[c].ncalls
                   => call[c].nwaits = call[c].ncalls
             /\ call'[c].nwaits > call[c].nwaits
                   => /\ call'[c].ncalls = call[c].ncalls + 1
                      /\ call'[c].nwaits = call'[c].ncalls ]_vars

\* An execute call that ended after three attempts and two waits, the second
\* wait clamped: backoff_factor 2 s, max_backoff 3 s, so min(3, 2 * 2^1) = 3 s.
C31_Witness ==
    \E c \in Blocking :
        /\ Done(c)
        /\ ~handler.config.jitter
        /\ handler.config.backoff_factor = Seconds(2)
        /\ handler.config.max_backoff = Seconds(3)
        /\ call[c].ncalls = 3
        /\ call[c].nwaits = 2
        /\ call[c].wait = Some(Seconds(3))

\* ------------------------------------------------------------------------
\* C32
\* ------------------------------------------------------------------------

\* The outcome is a 429 response whose Retry-After header is there and is not
\* an integer number of seconds.
BadRetryAfter429(o) ==
    /\ IsResponse(o)
    /\ Get(o.response).status_code = 429
    /\ Truthy(HeadersGet(Get(o.response), "Retry-After"))
    /\ ~IntParses(Get(HeadersGet(Get(o.response), "Retry-After")))

\* The exponential backoff computed for attempt index k, whatever the jitter.
ComputedBackoffs(cfg, k) ==
    LET backoff == Min(cfg.backoff_factor * Pow2(k), cfg.max_backoff)
    IN  IF cfg.jitter
        THEN { (backoff * (4 + random)) \div 8 : random \in RandomValues }
        ELSE { backoff }

\* C32: when execute retries a 429 response whose Retry-After header is not an
\* integer (malformed text, an HTTP-date), it ignores the header: it waits the
\* exponential backoff computed for that attempt index and then stands before
\* the next attempt; the call does not end there and nothing is raised.
C32_BadRetryAfterIgnored ==
    \A c \in Blocking :
        ( /\ Attempted(c)
          /\ BadRetryAfter429(LastOutcome(c))
          /\ 429 \in handler.config.retry_status_codes
          /\ call[c].ncalls <= handler.config.max_retries )
            => /\ ~Done(c)
               /\ call[c].result.kind = "pending"
               /\ call[c].nwaits = call[c].ncalls
               /\ \/ /\ call[c].pc = "sleep_try"
                     /\ call[c].attempt = call[c].ncalls - 1
                  \/ /\ call[c].pc = "for"
                     /\ call[c].attempt = call[c].ncalls
               /\ ~IsNone(call[c].wait)
               /\ Get(call[c].wait)
                    \in ComputedBackoffs(handler.config, call[c].ncalls - 1)

\* execute woke from the wait of 1 s (0.5 * 2^1) after its second attempt,
\* which had returned a 429 with an HTTP-date in Retry-After.
C32_Witness ==
    \E c \in Blocking :
        /\ call[c].pc = "for"
        /\ call[c].ncalls = 2
        /\ call[c].attempt = 2
        /\ BadRetryAfter429(LastOutcome(c))
        /\ ~handler.config.jitter
        /\ call[c].wait = Some(Seconds(1))

\* ------------------------------------------------------------------------
\* C33
\* ------------------------------------------------------------------------

\* The body of the response parsed to a JSON object.
BodyIsObject(response) == ~IsNone(response.json) /\ Get(response.json).is_dict

\* The message the precedence gives: the body's `message` member, otherwise
\* its `error` member, otherwise "<status> <reason phrase>".
MessageByPrecedence(response) ==
    IF BodyIsObject(response) /\ ~IsNone(Get(response.json).message)
    THEN Get(Get(response.json).message)
    ELSE IF BodyIsObject(response) /\ ~IsNone(Get(response.json).error)
    THEN Get(Get(response.json).error)
    ELSE DefaultMessage(response)

\* What raise_for_status raises for the response with another body.
RaisedWithBody(response, json) ==
    raise_for_status(NewResponse(response.status_code,
                                 HeadersGet(response, "Retry-After"), json))

\* C33: the message of the error raise_for_status raises (an HTTPError or one
\* of its subclasses) is the body's `message` member if the body parses to a
\* JSON object that has it, otherwise the body's `error` member if it has one,
\* otherwise "<status> <reason phrase>". A body that does not parse, or parses
\* to something that is no object, gives the default message, and the body
\* never changes whether an error is raised nor of which class it is.
C33_MessagePrecedence ==
    ( query.fn = "raise_for_status" /\ ~IsNone(query.raised) )
        => LET response == Get(query.response)
               raised == Get(query.raised)
           IN  /\ IsInstance(raised, "HTTPError")
                     => /\ raised.message = MessageByPrecedence(response)
                        /\ ~BodyIsObject(response)
                              => raised.message = DefaultMessage(response)
               /\ \A json \in {None} \cup { Some(j) : j \in JsonValues } :
                     /\ ~IsNone(RaisedWithBody(response, json))
                     /\ Get(RaisedWithBody(response, json)).type = raised.type

\* raise_for_status asked about a 500 whose body is an object with an `error`
\* member and no `message` member: the HTTPError carries the `error` text.
C33_Witness ==
    /\ query.fn = "raise_for_status"
    /\ Get(query.response).status_code = 500
    /\ BodyIsObject(Get(query.response))
    /\ IsNone(Get(Get(query.response).json).message)
    /\ Get(Get(query.response).json).error = Some("e")
    /\ ~IsNone(query.raised)
    /\ Get(query.raised).type = "HTTPError"
    /\ Get(query.raised).message = "e"

\* ------------------------------------------------------------------------
\* C34
\* ------------------------------------------------------------------------

\* C34: the retry decision is deterministic. With jitter disabled
\* get_backoff_time gives one delay for an (attempt, retry_after), whatever the
\* random source would return; should_retry gives one boolean for an
\* (attempt, outcome); so two executions under the same configuration with
\* jitter off that get the same outcomes are in the same state throughout:
\* same attempts, same waits, same result.
C34_Deterministic ==
    ~config.jitter
        => /\ \A c, d \in Calls : call[c] = call[d]
           /\ \A attempt \in 0..MaxAttemptIndex, retry_after \in QueryRetryAfters,
                 r1 \in RandomValues, r2 \in RandomValues :
                 get_backoff_time(config, attempt, retry_after, r1)
                     = get_backoff_time(config, attempt, retry_after, r2)

\* Two executions with jitter off that both made three attempts and two waits
\* on the outcomes 503, connect failure, 200, and returned the 200.
C34_Witness ==
    /\ ~config.jitter
    /\ \A c \in Calls :
         /\ Done(c)
         /\ call[c].ncalls = 3
         /\ call[c].nwaits = 2
         /\ ~IsNone(call[c].last_exception)
         /\ call[c].result.kind = "return"
         /\ Get(call[c].result.response).status_code = 200

\* ------------------------------------------------------------------------
\* C35
\* ------------------------------------------------------------------------

\* C35: every invocation of execute and execute_async terminates: when each
\* call of the attempt function and each wait eventually returns or raises, the
\* invocation eventually returns a response or raises, and up to then it makes
\* at most max_retries + 1 attempts and at most max_retries waits.
C35_Terminates ==
    /\ <>(\A c \in Executors : Done(c) /\ call[c].result.kind \in {"return", "raise"})
    /\ [](\A c \in Executors :
            handler.config.max_retries >= 0
                => /\ call[c].ncalls <= handler.config.max_retries + 1
                   /\ call[c].nwaits <= handler.config.max_retries)

\* An invocation of execute that ended by raising the read timeout of its last
\* attempt, having used its whole budget: max_retries + 1 attempts and
\* max_retries waits.
C35_Witness ==
    \E c \in Blocking :
        /\ Done(c)
        /\ handler.config.max_retries = MaxRetriesBound
        /\ call[c].ncalls = handler.config.max_retries + 1
        /\ call[c].nwaits = handler.config.max_retries
        /\ call[c].result.kind = "raise"
        /\ Get(call[c].result.exception).type = "ReadTimeout"

\* ------------------------------------------------------------------------
\* C36
\* ------------------------------------------------------------------------

\* C36: should_retry, get_backoff_time, execute and execute_async leave the
\* RetryConfig (max_retries, retry_status_codes, backoff_factor, max_backoff,
\* jitter) and the handler's reference to it as they are: the handler's config
\* is the caller's config in every state, and no step changes either. A step of
\* an invocation changes only that invocation's own record (its attempt index,
\* response and last exception, and where it stands), not the client, the
\* transports or the result of a direct call; a direct call changes no
\* invocation.
C36_ConfigUntouched ==
    /\ [](handler.config = config)
    /\ [][ /\ config' = config
           /\ handler' = handler
           /\ client' = client
           /\ transports' = transports
           /\ DOMAIN call' = DOMAIN call
           /\ \A c \in Calls : call'[c].mode = call[c].mode
           /\ call' # call => query' = query
           /\ query' # query => call' = call ]_vars

\* After an invocation that used its one retry and a direct should_retry call
\* that said no, the configuration still has its budget of one retry.
C36_Witness ==
    /\ \E c \in Executors : Done(c) /\ call[c].ncalls = 2 /\ call[c].nwaits = 1
    /\ query.fn = "should_retry"
    /\ query.attempt = 1
    /\ query.retry = FALSE
    /\ config.max_retries = 1
    /\ handler.config = config

\* ------------------------------------------------------------------------
\* C37
\* ------------------------------------------------------------------------

\* C37: every duration execute / execute_async passes to the sleep primitive
\* is >= 0, for every attempt index and every Retry-After value of a 429
\* response, a negative integer included (backoff_factor > 0, max_backoff > 0):
\* the wait never fails, and no retryable response turns into a raised error
\* (other than the cancellation of the task).
C37_WaitsNonNegative ==
    \A c \in Executors :
        /\ ~IsNone(call[c].wait) => Get(call[c].wait) >= 0
        /\ call[c].result.kind = "raise"
              => call[c].result.exception # Some(SleepError)
        /\ ( /\ Attempted(c)
             /\ IsResponse(LastOutcome(c))
             /\ RetryableFailure(handler.config, LastOutcome(c)) )
               => ( call[c].result.kind = "raise"
                      => Get(call[c].result.exception).type = "CancelledError" )

\* ------------------------------------------------------------------------
\* C38
\* ------------------------------------------------------------------------

\* The invocation stands at the for statement with its range used up: the
\* code after the loop runs next.
LoopExhausted(c) ==
    call[c].pc = "for" /\ call[c].attempt \notin AttemptRange(handler.config)

\* C38: for max_retries >= 0 the code after the retry loop of execute /
\* execute_async is unreachable: the range of the loop is never used up, every
\* invocation that has ended returned or raised inside the loop, in an
\* iteration with attempt <= max_retries, and the RuntimeError of the last line
\* is never raised.
C38_AfterLoopUnreachable ==
    \A c \in Executors :
        handler.config.max_retries >= 0
            => /\ ~LoopExhausted(c)
               /\ call[c].attempt <= handler.config.max_retries
               /\ Done(c)
                     => /\ Attempted(c)
                        /\ call[c].attempt = call[c].ncalls - 1
                        /\ call[c].result.kind = "raise"
                              => Get(call[c].result.exception).type # "RuntimeError"

\* An invocation that returned in the last iteration of its loop,
\* attempt = max_retries = 2, the response of its third attempt, a 503.
C38_Witness ==
    \E c \in Executors :
        /\ Done(c)
        /\ handler.config.max_retries = 2
        /\ call[c].attempt = 2
        /\ call[c].result.kind = "return"
        /\ Get(call[c].result.response).status_code = 503
        /\ 503 \in handler.config.retry_status_codes

\* ------------------------------------------------------------------------
\* C39
\* ------------------------------------------------------------------------

\* C39: a Client constructed without a retry argument has no retry handler,
\* although the default of ClientConfig.retry is a RetryConfig with 3 retries;
\* and a request on a client without a retry handler performs exactly one
\* transport send whatever the outcome is (a retryable status, a connect
\* failure, a read timeout), with no wait.
C39_NoRetryByDefault ==
    /\ \A enabled \in BOOLEAN : IsNone(NewClient(None, enabled).retry_handler)
    /\ ClientConfig_retry.max_retries > 0
    /\ \A c \in Requests :
         IsNone(client.retry_handler)
            => /\ call[c].ncalls <= 1
               /\ call[c].nwaits = 0
               /\ Done(c) => call[c].ncalls = 1
               /\ call[c].pc \in {"idle", "done"}

\* A request on a client without a retry handler that ended after one send,
\* which failed to connect: the ClientConnectionError went to the caller.
C39_Witness ==
    \E c \in Requests :
        /\ IsNone(client.retry_handler)
        /\ Done(c)
        /\ call[c].ncalls = 1
        /\ Get(Get(call[c].last_sent).exception).type = "ConnectError"
        /\ call[c].result.kind = "raise"
        /\ Get(call[c].result.exception).type = "ClientConnectionError"

\* ------------------------------------------------------------------------
\* C40
\* ------------------------------------------------------------------------

\* C40: the two retry implementations agree on the attempt budget: for the
\* same retry count n, the same retryable-status set and the same sequence of
\* outcomes, RetryHandler.execute and gemini Client._request have made the
\* same number of attempts when they have ended, and at most n + 1.
C40_SameAttemptBudget ==
    ( \A c \in Calls : Done(c) )
        => \A c, d \in Calls :
              /\ call[c].ncalls = call[d].ncalls
              /\ call[c].ncalls <= config.max_retries + 1

====
